---- MODULE Spec2Model ----
(***************************************************************************)
(* adVNTR read-matching core: the genotyping driver of vntr_finder.py and  *)
(* the path-analysis functions and HMM topology of advntr/hmm_utils.py.    *)
(*                                                                         *)
(* Four state machines share the pure definitions:                         *)
(*   SpecPath  walks the composed read-matcher graph built by              *)
(*             get_read_matcher_model, one state of the decoded path at a  *)
(*             time, and then runs the path-analysis functions on it;      *)
(*   Spec      is find_repeat_count_from_alignment_file: the driver, its   *)
(*             worker processes, the mapped-read loop and the aggregation; *)
(*   SpecModel applies the HMM builders of hmm_utils.py to flank lengths,  *)
(*             pattern lengths and numbers of copies;                      *)
(*   SpecCalibration is calculate_min_score_to_select_a_read: its          *)
(*             per-chromosome processes and their per-read workers.        *)
(***************************************************************************)
EXTENDS Integers, Sequences, FiniteSets, TLC

(***************************************************************************)
(* Bounds of the model.                                                    *)
(***************************************************************************)
Copies == 2          \* repeat copies of the walked read-matcher
MaxErrors == 1       \* insert/delete states and mismatching emissions on a walked path
MaxUnmapped == 2     \* records of the unmapped-reads file
MaxMapped == 1       \* records fetched from the alignment file
MaxFlank == 3        \* length of a flanking region handed to a builder
MaxPattern == 3      \* length of the repeat unit handed to a builder
MaxCopies == 3       \* copies handed to a builder

(***************************************************************************)
(* Inputs: the reference VNTR of the end-to-end scenarios.                 *)
(***************************************************************************)
pattern == <<"C", "A", "G">>
Bases == {"A", "C", "G", "T"}

Rep(n, b) == [j \in 1..n |-> b]

\* the flanks of the walked read-matcher
walk_left_flank == <<"G", "T", "A">>
walk_right_flank == <<"T", "A", "C">>
FlankLen == Len(walk_left_flank)

\* Python's None where the code keeps an index or a count
None == 0 - 1

Max2(a, b) == IF a >= b THEN a ELSE b
Min2(a, b) == IF a <= b THEN a ELSE b

(***************************************************************************)
(* State names.  A name is kept as its parts: 'M3_suffix' is               *)
(* [k |-> "M", c |-> 3, t |-> "suffix", i |-> 0], 'D2_1' is                *)
(* [k |-> "D", c |-> 2, t |-> "copy", i |-> 1], 'unit_start_1' is          *)
(* [k |-> "unit_start", c |-> 0, t |-> "copy", i |-> 1].  The string tests *)
(* of the code are the operators below, each true of exactly the names     *)
(* the Python test is true of.                                             *)
(***************************************************************************)
St(k, c, t, i) == [k |-> k, c |-> c, t |-> t, i |-> i]

START == St("start", 0, "none", 0)
END == St("end", 0, "none", 0)
M(c, t, i) == St("M", c, t, i)
I(c, t, i) == St("I", c, t, i)
D(c, t, i) == St("D", c, t, i)
unit_start(i) == St("unit_start", 0, "copy", i)
unit_end(i) == St("unit_end", 0, "copy", i)
suffix_start == St("suffix_start", 0, "suffix", 0)
suffix_end == St("suffix_end", 0, "suffix", 0)
prefix_start == St("prefix_start", 0, "prefix", 0)
prefix_end == St("prefix_end", 0, "prefix", 0)
start_repeats_matches == St("start_repeating_pattern_match", 0, "none", 0)
end_repeats_matches == St("end_repeating_pattern_match", 0, "none", 0)

startswith_M(s) == s.k = "M"
startswith_I(s) == s.k = "I"
startswith_D(s) == s.k = "D"
startswith_unit_start(s) == s.k = "unit_start"
startswith_unit_end(s) == s.k = "unit_end"
\* mutant: only the suffix counts as a flank
endswith_fix_of_suffix(s) == s.t = "suffix"
endswith_fix(s) == s.t \in {"suffix", "prefix"}
endswith_suffix(s) == s.t = "suffix"
endswith_prefix(s) == s.t = "prefix"
contains_start_or_end(s) == s.k \notin {"M", "I", "D"}
contains_suffix_end_suffix(s) == s.k = "suffix_end"
\* int(name.split("_")[0][1:]) of an M/I/D name
hmm_index(s) == s.c
\* name.split('_')[-1] not in ['prefix', 'suffix'], == '0'
last_part_is_copy(s) == s.t = "copy"
\* mutant: the last part of the name is any copy number
last_part_is_any_copy(s) == s.t = "copy"
last_part_is_0(s) == s.t = "copy" /\ s.i = 0

is_match_state(state_name) == startswith_M(state_name)

\* no state of the read-matcher is named start_random_matches / end_random_matches
is_emitting_state(state_name) == startswith_M(state_name) \/ startswith_I(state_name)

\* [state.name for idx, state in vpath[1:-1]]
visited_states_of(vpath) == SubSeq(vpath, 2, Len(vpath) - 1)

(***************************************************************************)
(* Path analysis (hmm_utils.py).  A vpath is the decoded state sequence    *)
(* with the model's start in front and its end behind; the functions work  *)
(* on the interior.  Each loop of the code is a recursion on its index.    *)
(***************************************************************************)
\* A for loop over visited_states is the run of its passes lo..hi, one after
\* the other; the run is cut in two halves, the second started with what the
\* first has left behind.
AndThen(first, Rest(_)) == CHOOSE r \in {Rest(v) : v \in {first}} : TRUE

RECURSIVE repeat_bp_loop(_, _, _)
repeat_bp_loop(visited_states, lo, hi) ==
    IF lo > hi THEN 0
    ELSE IF lo = hi
    THEN (IF is_emitting_state(visited_states[lo]) /\ ~endswith_fix(visited_states[lo])
          THEN 1 ELSE 0)
    ELSE repeat_bp_loop(visited_states, lo, (lo + hi) \div 2)
         + repeat_bp_loop(visited_states, (lo + hi) \div 2 + 1, hi)

get_number_of_repeat_bp_matches_in_vpath(vpath) ==
    repeat_bp_loop(visited_states_of(vpath), 1, Len(visited_states_of(vpath)))

RECURSIVE left_size_loop(_, _, _)
left_size_loop(visited_states, lo, hi) ==
    IF lo > hi THEN 0
    ELSE IF lo = hi
    THEN (IF is_emitting_state(visited_states[lo]) /\ endswith_suffix(visited_states[lo])
          THEN 1 ELSE 0)
    ELSE left_size_loop(visited_states, lo, (lo + hi) \div 2)
         + left_size_loop(visited_states, (lo + hi) \div 2 + 1, hi)

get_left_flanking_region_size_in_vpath(vpath) ==
    left_size_loop(visited_states_of(vpath), 1, Len(visited_states_of(vpath)))

RECURSIVE right_size_loop(_, _, _)
right_size_loop(visited_states, lo, hi) ==
    IF lo > hi THEN 0
    ELSE IF lo = hi
    THEN (IF is_emitting_state(visited_states[lo]) /\ endswith_prefix(visited_states[lo])
          THEN 1 ELSE 0)
    ELSE right_size_loop(visited_states, lo, (lo + hi) \div 2)
         + right_size_loop(visited_states, (lo + hi) \div 2 + 1, hi)

get_right_flanking_region_size_in_vpath(vpath) ==
    right_size_loop(visited_states_of(vpath), 1, Len(visited_states_of(vpath)))

RECURSIVE emitting_loop(_, _, _)
\* number of emitting states among visited_states[lo..hi]
emitting_loop(visited_states, lo, hi) ==
    IF lo > hi THEN 0
    ELSE IF lo = hi THEN (IF is_emitting_state(visited_states[lo]) THEN 1 ELSE 0)
    ELSE emitting_loop(visited_states, lo, (lo + hi) \div 2)
         + emitting_loop(visited_states, (lo + hi) \div 2 + 1, hi)

minimum_required_bp_in_repeat == 3

\* one pass of the second for loop of get_number_of_repeats_in_vpath over the
\* state vs; a is the record of the locals
repeats_pass(vs, read_length, a) ==
    LET bp == IF is_emitting_state(vs) THEN a.current_bp + 1 ELSE a.current_bp
        s_hit == startswith_unit_start(vs)
                 /\ read_length - bp >= minimum_required_bp_in_repeat
        e_hit == startswith_unit_end(vs) /\ bp >= minimum_required_bp_in_repeat
    IN [current_bp |-> bp,
        starts |-> IF s_hit THEN a.starts + 1 ELSE a.starts,
        ends |-> IF e_hit THEN a.ends + 1 ELSE a.ends,
        first_start |-> IF s_hit /\ a.first_start = None THEN bp ELSE a.first_start,
        last_start |-> IF s_hit THEN bp ELSE a.last_start,
        first_end |-> IF e_hit /\ a.first_end = None THEN bp ELSE a.first_end,
        last_end |-> IF e_hit THEN bp ELSE a.last_end]

RECURSIVE repeats_loop(_, _, _, _, _)
repeats_loop(visited_states, read_length, lo, hi, a) ==
    IF lo > hi THEN a
    ELSE IF lo = hi THEN repeats_pass(visited_states[lo], read_length, a)
    ELSE AndThen(repeats_loop(visited_states, read_length, lo, (lo + hi) \div 2, a),
                 LAMBDA b : repeats_loop(visited_states, read_length,
                                         (lo + hi) \div 2 + 1, hi, b))

repeats_locals(vpath) ==
    LET visited_states == visited_states_of(vpath)
        read_length == emitting_loop(visited_states, 1, Len(visited_states))
    IN repeats_loop(visited_states, read_length, 1, Len(visited_states),
                    [current_bp |-> 0, starts |-> 0, ends |-> 0,
                     first_end |-> None, last_end |-> None,
                     first_start |-> None, last_start |-> None])

\* mutant: delta is taken whenever the four positions are set
repeats_delta_unconditional(a) ==
    IF a.last_start # None /\ a.first_start # None /\ a.last_end # None /\ a.first_end # None
    THEN 1 ELSE 0

repeats_delta(a) ==
    IF a.last_start # None /\ a.first_start # None /\ a.last_end # None /\ a.first_end # None
       /\ a.first_end < a.first_start /\ a.last_start > a.last_end
    THEN 1 ELSE 0

get_number_of_repeats_in_vpath(vpath) ==
    LET a == repeats_locals(vpath)
    IN Max2(a.starts, a.ends) + repeats_delta(a)

\* one pass of the loop of get_repeating_pattern_lengths over index i (from 1);
\* a is [prev_start, lengths]
lengths_pass(visited_states, i, a) ==
    [lengths |-> IF startswith_unit_end(visited_states[i]) /\ a.prev_start # None
                 THEN Append(a.lengths, emitting_loop(visited_states, a.prev_start, i - 1))
                 ELSE a.lengths,
     prev_start |-> IF startswith_unit_start(visited_states[i]) THEN i ELSE a.prev_start]

RECURSIVE lengths_loop(_, _, _, _)
lengths_loop(visited_states, lo, hi, a) ==
    IF lo > hi THEN a
    ELSE IF lo = hi THEN lengths_pass(visited_states, lo, a)
    ELSE AndThen(lengths_loop(visited_states, lo, (lo + hi) \div 2, a),
                 LAMBDA b : lengths_loop(visited_states, (lo + hi) \div 2 + 1, hi, b))

get_repeating_pattern_lengths(visited_states) ==
    lengths_loop(visited_states, 1, Len(visited_states),
                 [prev_start |-> None, lengths |-> <<>>]).lengths

\* one pass of the loop of get_emitted_basepair_from_visited_states; a is
\* [returned, value, base_pair_idx]
emitted_basepair_pass(state, visited_state, sequence, a) ==
    IF a.returned THEN a
    ELSE IF visited_state = state
    THEN [a EXCEPT !.returned = TRUE, !.value = sequence[a.base_pair_idx + 1]]
    ELSE IF is_emitting_state(visited_state)
    THEN [a EXCEPT !.base_pair_idx = @ + 1]
    ELSE a

RECURSIVE emitted_basepair_loop(_, _, _, _, _, _)
emitted_basepair_loop(state, visited_states, sequence, lo, hi, a) ==
    IF lo > hi THEN a
    ELSE IF lo = hi THEN emitted_basepair_pass(state, visited_states[lo], sequence, a)
    ELSE AndThen(emitted_basepair_loop(state, visited_states, sequence,
                                       lo, (lo + hi) \div 2, a),
                 LAMBDA b : emitted_basepair_loop(state, visited_states, sequence,
                                                  (lo + hi) \div 2 + 1, hi, b))

\* the base, or "None"
get_emitted_basepair_from_visited_states(state, visited_states, sequence) ==
    emitted_basepair_loop(state, visited_states, sequence, 1, Len(visited_states),
                          [returned |-> FALSE, value |-> "None", base_pair_idx |-> 0]).value

(***************************************************************************)
(* HMM topology (hmm_utils.py).  A model is the set of its transitions     *)
(* <<from, to, weight>>, one per add_transition call or non-zero matrix    *)
(* entry, between its START and its END.  A weight is the fraction         *)
(* <<numerator, denominator>> in lowest terms.                             *)
(***************************************************************************)
RECURSIVE GCD(_, _)
GCD(a, b) == IF b = 0 THEN a ELSE GCD(b, a % b)

Rat(n, d) == LET g == GCD(IF n < 0 THEN 0 - n ELSE n, d) IN <<n \div g, d \div g>>
RatAdd(a, b) == Rat(a[1] * b[2] + b[1] * a[2], a[2] * b[2])
RatSub(a, b) == Rat(a[1] * b[2] - b[1] * a[2], a[2] * b[2])
RatDiv(a, b) == Rat(a[1] * b[2], a[2] * b[1])

\* settings.MAX_ERROR_RATE
MAX_ERROR_RATE == <<1, 20>>
\* insert_error = settings.MAX_ERROR_RATE * 2 / 5
insert_error == Rat(MAX_ERROR_RATE[1] * 2, MAX_ERROR_RATE[2] * 5)
\* delete_error = settings.MAX_ERROR_RATE * 1 / 5
delete_error == Rat(MAX_ERROR_RATE[1] * 1, MAX_ERROR_RATE[2] * 5)

\* mutant: the early exit of a match state is not taken off its M-to-M weight
flank_transitions_exit_on_top(free_end) ==
    [ins |-> insert_error,
     del |-> delete_error,
     mat |-> RatSub(RatSub(<<1, 1>>, insert_error), delete_error),
     mat_mat |-> RatSub(RatSub(<<1, 1>>, insert_error), delete_error),
     exit |-> RatSub(<<1, 1>>, insert_error)]

\* the weights of the add_transition calls of a flank builder; free_end is
\* what a match state gives to its early exit
flank_transitions(free_end) ==
    [ins |-> insert_error,
     del |-> delete_error,
     mat |-> RatSub(RatSub(<<1, 1>>, insert_error), delete_error),
     mat_mat |-> RatSub(RatSub(RatSub(<<1, 1>>, insert_error), delete_error), free_end),
     exit |-> RatSub(<<1, 1>>, insert_error)]

\* transitions of build_profile_hmm_for_repeats(patterns, MAX_ERROR_RATE)
build_profile_hmm_for_repeats == flank_transitions(<<0, 1>>)

\* the add_transition calls shared by the three profile builders: columns
\* 1..L of one segment with gateway states us and ue and the weights tr
column_transitions(L, t, i, us, ue, tr) ==
    {<<us, D(1, t, i), tr.del>>, <<us, I(0, t, i), tr.ins>>}
    \cup {<<I(0, t, i), I(0, t, i), tr.ins>>, <<I(0, t, i), D(1, t, i), tr.del>>,
          <<I(0, t, i), M(1, t, i), tr.mat>>}
    \cup {<<D(L, t, i), ue, tr.exit>>, <<D(L, t, i), I(L, t, i), tr.ins>>}
    \cup {<<M(L, t, i), ue, tr.exit>>, <<M(L, t, i), I(L, t, i), tr.ins>>}
    \cup {<<I(L, t, i), I(L, t, i), tr.ins>>, <<I(L, t, i), ue, tr.exit>>}
    \cup UNION {
           {<<M(c, t, i), I(c, t, i), tr.ins>>, <<D(c, t, i), I(c, t, i), tr.ins>>,
            <<I(c, t, i), I(c, t, i), tr.ins>>}
           \cup (IF c < L
                 THEN {<<I(c, t, i), M(c + 1, t, i), tr.mat>>,
                       <<I(c, t, i), D(c + 1, t, i), tr.del>>,
                       <<M(c, t, i), M(c + 1, t, i), tr.mat_mat>>,
                       <<M(c, t, i), D(c + 1, t, i), tr.del>>,
                       <<D(c, t, i), D(c + 1, t, i), tr.del>>,
                       <<D(c, t, i), M(c + 1, t, i), tr.mat>>}
                 ELSE {})
           : c \in 1..L }

get_prefix_matcher_hmm(L) ==
    LET tr == flank_transitions(<<1, 100>>)
    IN {<<START, prefix_start, <<1, 1>> >>, <<prefix_end, END, <<1, 1>> >>}
       \cup {<<prefix_start, M(1, "prefix", 0), tr.mat>>}
       \cup column_transitions(L, "prefix", 0, prefix_start, prefix_end, tr)
       \cup {<<M(c, "prefix", 0), prefix_end, <<1, 100>> >> : c \in 1..(L - 1)}

\* mutant: a match state of the suffix may leave early, as one of the prefix
get_suffix_matcher_hmm_leaving_early(L) ==
    LET tr == flank_transitions(<<1, 100>>)
    IN {<<START, suffix_start, <<1, 1>> >>, <<suffix_end, END, <<1, 1>> >>}
       \cup {<<suffix_start, M(c, "suffix", 0), RatDiv(tr.mat, <<L, 1>>)>> : c \in 1..L}
       \cup column_transitions(L, "suffix", 0, suffix_start, suffix_end, tr)
       \cup {<<M(c, "suffix", 0), suffix_end, <<1, 100>> >> : c \in 1..(L - 1)}

get_suffix_matcher_hmm(L) ==
    LET tr == flank_transitions(<<0, 1>>)
    IN {<<START, suffix_start, <<1, 1>> >>, <<suffix_end, END, <<1, 1>> >>}
       \cup {<<suffix_start, M(c, "suffix", 0), RatDiv(tr.mat, <<L, 1>>)>> : c \in 1..L}
       \cup column_transitions(L, "suffix", 0, suffix_start, suffix_end, tr)

get_constant_number_of_repeats_matcher_hmm(L, copies) ==
    LET transitions == build_profile_hmm_for_repeats
    IN UNION {
        (IF repeat > 0 THEN {<<unit_end(repeat - 1), unit_start(repeat), <<1, 1>> >>}
                       ELSE {<<START, unit_start(repeat), <<1, 1>> >>})
        \cup (IF repeat = copies - 1 THEN {<<unit_end(repeat), END, <<1, 1>> >>} ELSE {})
        \cup {<<unit_start(repeat), M(1, "copy", repeat), transitions.mat>>}
        \cup column_transitions(L, "copy", repeat, unit_start(repeat), unit_end(repeat),
                                transitions)
        : repeat \in 0..(copies - 1) }

\* mat[a][b] = w; an entry of 0 is no transition
set_transition(mat, a, b, w) ==
    {e \in mat : ~(e[1] = a /\ e[2] = b)} \cup (IF w[1] = 0 THEN {} ELSE {<<a, b, w>>})

\* the last state j with mat[s][j] != 0
next_state_of(mat, s) == CHOOSE n \in {e[2] : e \in {e \in mat : e[1] = s}} : TRUE

\* mutant: the mass of a unit_end is not split, the exit is added on top
split_unit_end_whole(mat, ue) ==
    set_transition(mat, ue, end_repeats_matches, <<1, 2>>)

\* mat[unit_end][next_state] = 0.5; mat[unit_end][end_repeats_ind] = 0.5
split_unit_end(mat, ue) ==
    set_transition(set_transition(mat, ue, next_state_of(mat, ue), <<1, 2>>),
                   ue, end_repeats_matches, <<1, 2>>)

get_variable_number_of_repeats_matcher_hmm(L, copies) ==
    LET mat == get_constant_number_of_repeats_matcher_hmm(L, copies)
        unit_ends == {e[1] : e \in {e \in mat : startswith_unit_end(e[1])}}
        first_unit_start == next_state_of(mat, START)
        rewired ==
          set_transition(
            set_transition(
              set_transition(mat, START, first_unit_start, <<0, 1>>),
              START, start_repeats_matches, <<1, 1>>),
            start_repeats_matches, first_unit_start, <<1, 1>>)
    IN set_transition(
         {e \in rewired : e[1] \notin unit_ends}
         \cup UNION {{e \in split_unit_end(rewired, ue) : e[1] = ue} : ue \in unit_ends},
         end_repeats_matches, END, <<1, 1>>)

\* mutant: the two models are put side by side, the end of the first is not
\* tied to the start of the second
concatenate_untied(model, other) ==
    {e \in model : e[2] # END} \cup {e \in other : e[1] # START}

\* model.concatenate(other): the end of the model becomes the start of other
concatenate(model, other) ==
    {e \in model : e[2] # END}
    \cup {e \in other : e[1] # START}
    \cup {<<a[1], b[2], Rat(a[3][1] * b[3][1], a[3][2] * b[3][2])>> :
            a \in {e \in model : e[2] = END}, b \in {e \in other : e[1] = START}}

states_of(mat) == {e[1] : e \in mat} \cup {e[2] : e \in mat}

\* mutant: the out-edges of a repeat match state are left as they were
early_exit_unscaled(mat, repeat_match_states) ==
    mat \cup {<<m, END, <<7, 10 * Cardinality(repeat_match_states)>> >> :
                m \in repeat_match_states}

\* the loop over repeat_match_states: every out-edge divided by total, then
\* mat[match_state][model.end_index] = to_end / total
early_exit(mat, repeat_match_states) ==
    LET to_end == Rat(7, 10 * Cardinality(repeat_match_states))
        total == RatAdd(<<1, 1>>, to_end)
    IN {e \in mat : e[1] \notin repeat_match_states}
       \cup {<<e[1], e[2], RatDiv(e[3], total)>> :
               e \in {e \in mat : e[1] \in repeat_match_states /\ e[2] # END}}
       \cup {<<m, END, RatDiv(to_end, total)>> : m \in repeat_match_states}

get_read_matcher_model(F, L, copies) ==
    LET mat == concatenate(concatenate(get_suffix_matcher_hmm(F),
                                       get_variable_number_of_repeats_matcher_hmm(L, copies)),
                           get_prefix_matcher_hmm(F))
        first_repeat_matches == {s \in states_of(mat) : startswith_M(s) /\ last_part_is_0(s)}
        repeat_match_states == {s \in states_of(mat) : startswith_M(s) /\ last_part_is_copy(s)}
        entered ==
          {e \in set_transition(mat, START, suffix_start, <<3, 10>>) :
              ~(e[1] = START /\ e[2] \in first_repeat_matches)}
          \cup {<<START, m, Rat(7, 10 * Cardinality(first_repeat_matches))>> :
                  m \in first_repeat_matches}
    IN early_exit(entered, repeat_match_states)

\* the transitions of a model without their weights
edges_of(mat) == {<<e[1], e[2]>> : e \in mat}

(***************************************************************************)
(* Flank match rate.  A rate is the fraction <<numerator, denominator>>.   *)
(***************************************************************************)
RatLess(a, b) == a[1] * b[2] < b[1] * a[2]
RatEq(a, b) == a[1] * b[2] = b[1] * a[2]

\* epsilon = 0.00001
epsilon == <<1, 100000>>

\* one pass of the first loop of get_flanking_regions_matching_rate; a is
\* [broke, max_hmm_index, prev_state]
max_hmm_index_pass(state, a) ==
    IF a.broke THEN a
    ELSE IF contains_suffix_end_suffix(state)
    THEN [a EXCEPT !.broke = TRUE, !.max_hmm_index = hmm_index(a.prev_state)]
    ELSE [a EXCEPT !.prev_state = state]

RECURSIVE max_hmm_index_loop(_, _, _, _)
max_hmm_index_loop(visited_states, lo, hi, a) ==
    IF lo > hi THEN a
    ELSE IF lo = hi THEN max_hmm_index_pass(visited_states[lo], a)
    ELSE AndThen(max_hmm_index_loop(visited_states, lo, (lo + hi) \div 2, a),
                 LAMBDA b : max_hmm_index_loop(visited_states, (lo + hi) \div 2 + 1, hi, b))

\* one pass of the second loop over the state vs; a is the record of the four
\* counters and seq_index
flanking_pass(vs, sequence, left_flank, right_flank, max_hmm_index, a) ==
    IF contains_start_or_end(vs) THEN a
    ELSE
      LET hmm_state == hmm_index(vs)
          base == sequence[a.seq_index + 1]
          a1 == IF endswith_prefix(vs)
                THEN [a EXCEPT
                        !.right_flanking_matches =
                            IF is_match_state(vs) /\ base = right_flank[hmm_state]
                            THEN @ + 1 ELSE @,
                        !.right_flanking_basepairs =
                            IF is_emitting_state(vs) THEN @ + 1 ELSE @]
                ELSE a
          a2 == IF endswith_suffix(vs)
                THEN [a1 EXCEPT
                        !.left_flanking_matches =
                            IF is_match_state(vs)
                               /\ base = left_flank[Len(left_flank)
                                                    - (max_hmm_index - hmm_state + 1) + 1]
                            THEN @ + 1 ELSE @,
                        !.left_flanking_basepairs =
                            IF is_emitting_state(vs) THEN @ + 1 ELSE @]
                ELSE a1
      IN IF is_emitting_state(vs) THEN [a2 EXCEPT !.seq_index = @ + 1] ELSE a2

RECURSIVE flanking_loop(_, _, _, _, _, _, _, _)
flanking_loop(visited_states, sequence, left_flank, right_flank, max_hmm_index, lo, hi, a) ==
    IF lo > hi THEN a
    ELSE IF lo = hi
    THEN flanking_pass(visited_states[lo], sequence, left_flank, right_flank, max_hmm_index, a)
    ELSE AndThen(flanking_loop(visited_states, sequence, left_flank, right_flank,
                               max_hmm_index, lo, (lo + hi) \div 2, a),
                 LAMBDA b : flanking_loop(visited_states, sequence, left_flank, right_flank,
                                          max_hmm_index, (lo + hi) \div 2 + 1, hi, b))

flanking_counts(vpath, sequence, left_flank, right_flank) ==
    LET visited_states == visited_states_of(vpath)
        max_hmm_index ==
            max_hmm_index_loop(visited_states, 1, Len(visited_states),
                               [broke |-> FALSE, max_hmm_index |-> 0 - 1,
                                prev_state |-> visited_states[1]]).max_hmm_index
    IN flanking_loop(visited_states, sequence, left_flank, right_flank, max_hmm_index,
                     1, Len(visited_states),
                     [right_flanking_matches |-> 0, right_flanking_basepairs |-> 0,
                      left_flanking_matches |-> 0, left_flanking_basepairs |-> 0,
                      seq_index |-> 0])

\* mutant: the larger of the two rates is returned
get_flanking_regions_matching_rate_max(vpath, sequence, left_flank, right_flank, accuracy_filter) ==
    LET a == flanking_counts(vpath, sequence, left_flank, right_flank)
        zero == IF accuracy_filter THEN epsilon ELSE <<1, 1>>
        right_rate == IF a.right_flanking_basepairs # 0
                      THEN <<a.right_flanking_matches, a.right_flanking_basepairs>> ELSE zero
        left_rate == IF a.left_flanking_basepairs # 0
                     THEN <<a.left_flanking_matches, a.left_flanking_basepairs>> ELSE zero
    IN IF RatLess(left_rate, right_rate) THEN right_rate ELSE left_rate

get_flanking_regions_matching_rate(vpath, sequence, left_flank, right_flank, accuracy_filter) ==
    LET a == flanking_counts(vpath, sequence, left_flank, right_flank)
        zero == IF accuracy_filter THEN epsilon ELSE <<1, 1>>
        right_rate == IF a.right_flanking_basepairs # 0
                      THEN <<a.right_flanking_matches, a.right_flanking_basepairs>> ELSE zero
        left_rate == IF a.left_flanking_basepairs # 0
                     THEN <<a.left_flanking_matches, a.left_flanking_basepairs>> ELSE zero
    IN IF RatLess(left_rate, right_rate) THEN left_rate ELSE right_rate

(***************************************************************************)
(* Frameshift detection (vntr_finder.py).  mutations is the dict of the    *)
(* code: a function from the state label ('D3', 'I2' + base) to its count. *)
(***************************************************************************)
EmptyDict == [x \in {} |-> 0]

DictInc(d, key) ==
    IF key \in DOMAIN d THEN [d EXCEPT ![key] = @ + 1]
    ELSE [x \in (DOMAIN d) \cup {key} |-> IF x = key THEN 1 ELSE d[x]]

\* visited_states[i].split('_')[0], with the emitted base behind an insert state
mutation_label(vs, visited_states, sequence) ==
    [k |-> vs.k, c |-> vs.c,
     b |-> IF startswith_I(vs)
           THEN get_emitted_basepair_from_visited_states(vs, visited_states, sequence)
           ELSE ""]

\* mutant: the length of the unit is not looked at
is_frameshift_length_any(repeat_length) == TRUE

\* repeats_lengths[current_repeat] != len(self.reference_vntr.pattern)
is_frameshift_length(repeat_length) == repeat_length # Len(pattern)

\* one pass of the inner for loop of find_frameshift_from_selected_reads over
\* the state vs; a is [current_repeat, mutations]
frameshift_pass(vs, visited_states, sequence, repeats_lengths, a) ==
    IF endswith_fix(vs) \/ startswith_M(vs) THEN a
    ELSE
      LET cr == IF startswith_unit_start(vs)
                THEN (IF a.current_repeat = None THEN 0 ELSE a.current_repeat + 1)
                ELSE a.current_repeat
      IN IF cr = None \/ cr >= Len(repeats_lengths)
         THEN [a EXCEPT !.current_repeat = cr]
         ELSE IF ~startswith_I(vs) /\ ~startswith_D(vs)
         THEN [a EXCEPT !.current_repeat = cr]
         ELSE [current_repeat |-> cr,
               mutations |-> IF is_frameshift_length(repeats_lengths[cr + 1])
                             THEN DictInc(a.mutations,
                                          mutation_label(vs, visited_states, sequence))
                             ELSE a.mutations]

RECURSIVE frameshift_read_loop(_, _, _, _, _, _)
frameshift_read_loop(visited_states, sequence, repeats_lengths, lo, hi, a) ==
    IF lo > hi THEN a
    ELSE IF lo = hi
    THEN frameshift_pass(visited_states[lo], visited_states, sequence, repeats_lengths, a)
    ELSE AndThen(frameshift_read_loop(visited_states, sequence, repeats_lengths,
                                      lo, (lo + hi) \div 2, a),
                 LAMBDA b : frameshift_read_loop(visited_states, sequence, repeats_lengths,
                                                 (lo + hi) \div 2 + 1, hi, b))

RECURSIVE frameshift_reads_loop(_, _, _)
\* the outer loop: a is [mutations, repeating_bps_in_data, repeats_lengths_distribution]
frameshift_reads_loop(reads, r, a) ==
    IF r > Len(reads) THEN a
    ELSE
      LET sequence == reads[r].sequence
          vpath == reads[r].vpath
          visited_states == visited_states_of(vpath)
          repeats_lengths == get_repeating_pattern_lengths(visited_states)
      IN frameshift_reads_loop(reads, r + 1,
           [mutations |-> frameshift_read_loop(visited_states, sequence, repeats_lengths,
                                               1, Len(visited_states),
                                               [current_repeat |-> None,
                                                mutations |-> a.mutations]).mutations,
            repeating_bps_in_data |->
                a.repeating_bps_in_data + get_number_of_repeat_bp_matches_in_vpath(vpath),
            repeats_lengths_distribution |-> a.repeats_lengths_distribution \o repeats_lengths])

find_frameshift_from_selected_reads(reads) ==
    frameshift_reads_loop(reads, 1,
        [mutations |-> EmptyDict, repeating_bps_in_data |-> 0,
         repeats_lengths_distribution |-> <<>>])

(***************************************************************************)
(* Inputs of the driver: the reference VNTR of the end-to-end scenarios    *)
(* and the records of the two read files.                                  *)
(***************************************************************************)
left_flanking_region == Rep(10, "A")
right_flanking_region == Rep(10, "T")
\* reference_vntr.start_point and reference_vntr.get_length()
reference_vntr == [chromosome |-> <<"chr", "1">>, start_point |-> 100, length |-> 12]

SeqOf(a, b, F(_)) == [j \in 1..(b - a + 1) |-> F(a + j - 1)]

RECURSIVE Concat(_)
Concat(ss) == IF ss = <<>> THEN <<>> ELSE Head(ss) \o Concat(Tail(ss))

\* pieces of a decoded path of the read-matcher with F flank columns
suffix_run(from, F) ==
    <<suffix_start>> \o SeqOf(from, F, LAMBDA c : M(c, "suffix", 0)) \o <<suffix_end>>
prefix_run(to) ==
    <<prefix_start>> \o SeqOf(1, to, LAMBDA c : M(c, "prefix", 0)) \o <<prefix_end>>
whole_unit(i) ==
    <<unit_start(i)>> \o SeqOf(1, Len(pattern), LAMBDA c : M(c, "copy", i)) \o <<unit_end(i)>>
\* a unit whose last column is deleted
short_unit(i) ==
    <<unit_start(i)>> \o SeqOf(1, Len(pattern) - 1, LAMBDA c : M(c, "copy", i))
      \o <<D(Len(pattern), "copy", i), unit_end(i)>>
whole_units(a, b) == Concat(SeqOf(a, b, LAMBDA i : whole_unit(i)))

\* lf bases of the left flank, units 0..n-1, rf bases of the right flank
spanning_vpath(lf, n, rf) ==
    <<START>> \o suffix_run(Len(left_flanking_region) - lf + 1, Len(left_flanking_region))
      \o <<start_repeats_matches>> \o whole_units(0, n - 1) \o <<end_repeats_matches>>
      \o prefix_run(rf) \o <<END>>
\* the same with the last unit one base short
frameshift_vpath(lf, n, rf) ==
    <<START>> \o suffix_run(Len(left_flanking_region) - lf + 1, Len(left_flanking_region))
      \o <<start_repeats_matches>> \o whole_units(0, n - 2) \o short_unit(n - 1)
      \o <<end_repeats_matches>> \o prefix_run(rf) \o <<END>>
\* internal entry at M1_0, n whole units behind it, early termination after
\* `more` columns of the next one
repeat_only_vpath(n, more) ==
    <<START>> \o SeqOf(1, Len(pattern), LAMBDA c : M(c, "copy", 0)) \o <<unit_end(0)>>
      \o whole_units(1, n - 1)
      \o <<unit_start(n)>> \o SeqOf(1, more, LAMBDA c : M(c, "copy", n)) \o <<END>>
\* bases in front of the left flank (lead of them, inserted ahead of its first
\* column), lf bases of the flank and the first `more` columns of copy 0
left_anchor_vpath(lead, lf, more) ==
    <<START, suffix_start>> \o SeqOf(1, lead, LAMBDA c : I(0, "suffix", 0))
      \o SeqOf(Len(left_flanking_region) - lf + 1, Len(left_flanking_region),
               LAMBDA c : M(c, "suffix", 0))
      \o <<suffix_end, start_repeats_matches, unit_start(0)>>
      \o SeqOf(1, more, LAMBDA c : M(c, "copy", 0)) \o <<END>>

units_seq(n) == Concat([j \in 1..n |-> pattern])

\* Seq.reverse_complement()
complement(b) ==
    CASE b = "A" -> "T" [] b = "T" -> "A" [] b = "C" -> "G" [] b = "G" -> "C" [] OTHER -> b
reverse_complement(seq) == [j \in 1..Len(seq) |-> complement(seq[Len(seq) + 1 - j])]

\* seq.count('N')
count_N(seq) == Cardinality({j \in 1..Len(seq) : seq[j] = "N"})

\* hmm.viterbi is the decoder of the HMM library: what it returns for the two
\* strands of a read comes with the read, as (logp, vpath)
Decode(logp, vpath) == [logp |-> logp, vpath |-> vpath]
junk == Decode(0 - 400, repeat_only_vpath(8, 2))

\* get_min_score_to_select_a_read(hmm, alignment_file, read_length)
get_min_score_to_select_a_read == 0 - 60

\* the records of the unmapped-reads file: 26 bases each
spanning_read == Rep(10, "A") \o units_seq(2) \o Rep(10, "T")
unmapped_reads ==
    { \* an N among the bases
      [seq |-> [spanning_read EXCEPT ![12] = "N"],
       forward |-> Decode(0 - 20, spanning_vpath(10, 2, 10)), reverse |-> junk],
      \* spanning, forward strand
      [seq |-> spanning_read,
       forward |-> Decode(0 - 10, spanning_vpath(10, 2, 10)), reverse |-> junk],
      \* sequenced from the other strand: 7 + 4 units + 7
      [seq |-> reverse_complement(Rep(7, "A") \o units_seq(4) \o Rep(7, "T")),
       forward |-> junk, reverse |-> Decode(0 - 5, spanning_vpath(7, 4, 7))],
      \* scored exactly the threshold on both strands
      [seq |-> Rep(5, "A") \o units_seq(5) \o Rep(6, "T"),
       forward |-> Decode(get_min_score_to_select_a_read, spanning_vpath(5, 5, 6)),
       reverse |-> Decode(get_min_score_to_select_a_read, repeat_only_vpath(8, 2))],
      \* two repeat bases behind the left flank
      [seq |-> Rep(14, "G") \o Rep(10, "A") \o <<"C", "A">>,
       forward |-> Decode(0 - 50, left_anchor_vpath(14, 10, 2)), reverse |-> junk] }

\* the records fetched from the alignment file; reference_end None is 0 here
MappedRead(is_unmapped, reference_start, reference_end, seq, low_quality, forward, reverse) ==
    [is_unmapped |-> is_unmapped, reference_start |-> reference_start,
     reference_end |-> reference_end, seq |-> seq, mapq |-> IF low_quality THEN 0 ELSE 60,
     low_quality |-> low_quality, forward |-> forward, reverse |-> reverse]
mapped_reads ==
    { \* flagged unmapped
      MappedRead(TRUE, 100, 0, units_seq(4), FALSE, junk, junk),
      \* inside the VNTR, no reference_end
      MappedRead(FALSE, 102, 0, units_seq(3), FALSE,
                 Decode(0 - 30, repeat_only_vpath(2, 3)), junk),
      \* across the left boundary, left flank of 5
      MappedRead(FALSE, 95, 103, Rep(5, "A") \o units_seq(1), FALSE,
                 Decode(0 - 12, left_anchor_vpath(0, 5, 3)), junk),
      \* across the right boundary, other strand, flanks 6 and 5
      MappedRead(FALSE, 103, 117, reverse_complement(Rep(6, "A") \o units_seq(3) \o Rep(5, "T")),
                 FALSE, junk, Decode(0 - 15, spanning_vpath(6, 3, 5))),
      \* around the whole VNTR, flanks 6 and 6, one base deleted
      MappedRead(FALSE, 94, 117, Rep(6, "A") \o units_seq(3) \o <<"C", "A">> \o Rep(6, "T"),
                 FALSE, Decode(0 - 25, frameshift_vpath(6, 4, 6)), junk),
      \* low quality and scored under the threshold
      MappedRead(FALSE, 104, 110, units_seq(2), TRUE, junk, junk),
      \* low quality and scored the threshold on both strands
      MappedRead(FALSE, 100, 112, units_seq(4), TRUE,
                 Decode(get_min_score_to_select_a_read, repeat_only_vpath(3, 3)),
                 Decode(get_min_score_to_select_a_read, repeat_only_vpath(8, 2))),
      \* an N among the bases
      MappedRead(FALSE, 106, 0, <<"C", "A", "N", "C", "A", "G">>, FALSE, junk, junk) }

\* the canonical contigs; a name is the sequence of its parts, 'chr' first if
\* it has one
CHROMOSOMES == {<<"chr", "1">>, <<"chr", "2">>}
\* samfile.references: this file names the first contig without 'chr'
references == << <<"1">>, <<"chr", "2">>, <<"chr", "Un">> >>
\* 'chr' + name
chr_plus(name) == <<"chr">> \o name
startswith_chr(name) == name # <<>> /\ name[1] = "chr"

\* a record of the alignment file with what hmm.viterbi returns for its bases
AlignedRead(reference_name, is_unmapped, reference_start, reference_end, seq, logp) ==
    [reference_name |-> reference_name, is_unmapped |-> is_unmapped,
     reference_start |-> reference_start, reference_end |-> reference_end,
     seq |-> seq, logp |-> logp]
\* samfile.fetch(reference, multiple_iterators=True): the reads of a contig
\* in the order of the file
fetch(reference) ==
    IF reference = <<"1">>
    THEN << \* flagged unmapped, placed with its mate
            AlignedRead(<<"1">>, TRUE, 60, 0, units_seq(2), 0 - 70),
            \* ends inside the VNTR
            AlignedRead(<<"1">>, FALSE, 92, 104, units_seq(4), 0 - 71),
            \* around the whole VNTR
            AlignedRead(<<"1">>, FALSE, 94, 117, units_seq(2), 0 - 72),
            \* ends where the VNTR starts
            AlignedRead(<<"1">>, FALSE, 94, 100, units_seq(2), 0 - 73),
            \* starts inside the VNTR, no reference_end
            AlignedRead(<<"1">>, FALSE, 108, 0, units_seq(2), 0 - 74),
            \* far from the VNTR, an N among the bases
            AlignedRead(<<"1">>, FALSE, 300, 306, <<"C", "A", "N", "C", "A", "G">>, 0 - 75),
            \* far from the VNTR
            AlignedRead(<<"1">>, FALSE, 400, 406, units_seq(2), 0 - 76) >>
    ELSE IF reference = <<"chr", "2">>
    THEN << \* at the coordinates of the VNTR on another contig
            AlignedRead(<<"chr", "2">>, FALSE, 104, 110, units_seq(2), 0 - 77),
            \* no reference_end
            AlignedRead(<<"chr", "2">>, FALSE, 500, 0, units_seq(2), 0 - 78) >>
    ELSE << AlignedRead(reference, FALSE, 10, 16, units_seq(2), 0 - 79) >>


(***************************************************************************)
(* State.                                                                  *)
(***************************************************************************)
VARIABLES
    path_hmm,         \* the transitions of the model the path is decoded with
    path_stage,       \* "walk", "decoded" or "analysed"
    path_vpath,       \* the state path decoded so far, START first
    path_sequence,    \* the read bases emitted so far
    path_errors,      \* insert/delete states and mismatching emissions so far
    path_result,      \* what the path-analysis functions returned
    pc,                           \* where the driver is
    number_of_reads,
    read_length,
    hmm,                          \* None until the first unmapped read
    min_score_to_count_read,
    sema,                         \* the free slots of Semaphore(CORES)
    process_list,                 \* the processes started, with their locals
    vntr_bp_in_unmapped_reads,    \* the shared Value
    selected_reads,               \* the manager's list
    best_seq,                     \* the manager's dict
    read_segment,                 \* the loop variable of the unmapped reads
    fetched,                      \* the mapped reads fetched so far, in order
    read,                         \* the loop variable of the mapped reads
    kept,                         \* the locals sequence, logp, vpath of the mapped-read loop
    vntr_bp_in_mapped_reads,
    flanked_repeats,
    observed_repeats,
    result,                       \* returned, or the exception raised
    viterbi_calls,                \* the sequences handed to hmm.viterbi so far
    build_args,       \* the flank length, pattern length and copies a builder is called with
    built,            \* the model a builder returned
    chromosome_processes,  \* the processes of calculate_min_score_to_select_a_read
    false_scores,          \* the manager's list of null scores
    score,                 \* the percentile returned, or the exception raised
    use_trained_hmms,      \* the setting USE_TRAINED_HMMS
    stored_scores_file,    \* TRAINED_HMMS_DIR + '<id>_<read_length>.scores'
    stored_hmm_file,       \* TRAINED_HMMS_DIR + '<id>_<read_length>.json'
    call,                  \* the last call of a getter of the stores and how it ended
    calculated             \* per fraction, the scores calculate_min_score_to_select_a_read returned

path_vars == <<path_hmm, path_stage, path_vpath, path_sequence, path_errors, path_result>>
driver_vars == <<pc, number_of_reads, read_length, hmm, min_score_to_count_read, sema,
                 process_list, vntr_bp_in_unmapped_reads, selected_reads, best_seq,
                 read_segment, fetched, read, kept, vntr_bp_in_mapped_reads,
                 flanked_repeats, observed_repeats, result, viterbi_calls>>
model_vars == <<build_args, built>>
store_vars == <<use_trained_hmms, stored_scores_file, stored_hmm_file, call, calculated>>
calibration_vars == <<chromosome_processes, false_scores, score, store_vars>>
vars == <<path_vars, driver_vars, model_vars, calibration_vars>>

(***************************************************************************)
(* SpecPath: Viterbi decoding returns a START-to-END path of the composed  *)
(* read-matcher that emits the read.  The walk below produces every such   *)
(* path with at most MaxErrors insert/delete states and mismatches, and    *)
(* the read it emits, and hands both to the path-analysis functions.       *)
(***************************************************************************)
read_matcher == edges_of(get_read_matcher_model(FlankLen, Len(pattern), Copies))

Succ == [s \in states_of(path_hmm) |-> {e[2] : e \in {e \in path_hmm : e[1] = s}}]

\* the base a match state is peaked on
reference_base(s) ==
    IF endswith_suffix(s) THEN walk_left_flank[s.c]
    ELSE IF endswith_prefix(s) THEN walk_right_flank[s.c]
    ELSE pattern[s.c]

path_last == path_vpath[Len(path_vpath)]

InitPath ==
    /\ path_hmm = read_matcher
    /\ path_stage = "walk"
    /\ path_vpath = <<START>>
    /\ path_sequence = <<>>
    /\ path_errors = 0
    /\ path_result = [done |-> FALSE]

\* what a match state emits: the base it is peaked on, or a substitution
substitution(b) == CASE b = "A" -> "C" [] b = "C" -> "G" [] b = "G" -> "T" [] OTHER -> "A"
match_emissions(s) == {reference_base(s), substitution(reference_base(s))}
\* what an insert state emits
insert_emissions == {"A", "T"}

WalkMatch ==
    /\ path_stage = "walk"
    /\ \E n \in Succ[path_last] :
         /\ startswith_M(n)
         /\ \E b \in match_emissions(n) :
              /\ path_errors + (IF b = reference_base(n) THEN 0 ELSE 1) <= MaxErrors
              /\ path_vpath' = Append(path_vpath, n)
              /\ path_sequence' = Append(path_sequence, b)
              /\ path_errors' = path_errors + (IF b = reference_base(n) THEN 0 ELSE 1)
    /\ UNCHANGED <<path_hmm, path_stage, path_result>>
    /\ UNCHANGED <<driver_vars, model_vars, calibration_vars>>

WalkInsert ==
    /\ path_stage = "walk"
    /\ path_errors < MaxErrors
    /\ \E n \in Succ[path_last], b \in insert_emissions :
         /\ startswith_I(n)
         /\ path_vpath' = Append(path_vpath, n)
         /\ path_sequence' = Append(path_sequence, b)
    /\ path_errors' = path_errors + 1
    /\ UNCHANGED <<path_hmm, path_stage, path_result>>
    /\ UNCHANGED <<driver_vars, model_vars, calibration_vars>>

WalkDelete ==
    /\ path_stage = "walk"
    /\ path_errors < MaxErrors
    /\ \E n \in Succ[path_last] :
         /\ startswith_D(n)
         /\ path_vpath' = Append(path_vpath, n)
    /\ path_errors' = path_errors + 1
    /\ UNCHANGED <<path_hmm, path_stage, path_sequence, path_result>>
    /\ UNCHANGED <<driver_vars, model_vars, calibration_vars>>

WalkGateway ==
    /\ path_stage = "walk"
    /\ \E n \in Succ[path_last] :
         /\ contains_start_or_end(n)
         /\ n # END
         /\ path_vpath' = Append(path_vpath, n)
    /\ UNCHANGED <<path_hmm, path_stage, path_sequence, path_errors, path_result>>
    /\ UNCHANGED <<driver_vars, model_vars, calibration_vars>>

\* a second selected read of the same read-matcher: its first unit holds an
\* insert and a delete state and emits len(pattern) bases, its second unit
\* loses one base
other_selected_read ==
    [sequence |-> <<"G", "T", "A", "C", "T", "G", "C", "A", "T", "A", "C">>,
     logp |-> 0,
     vpath |-> <<START, suffix_start,
                 M(1, "suffix", 0), M(2, "suffix", 0), M(3, "suffix", 0), suffix_end,
                 start_repeats_matches,
                 unit_start(0), M(1, "copy", 0), I(1, "copy", 0), D(2, "copy", 0),
                 M(3, "copy", 0), unit_end(0),
                 unit_start(1), M(1, "copy", 1), M(2, "copy", 1), D(3, "copy", 1), unit_end(1),
                 end_repeats_matches, prefix_start,
                 M(1, "prefix", 0), M(2, "prefix", 0), M(3, "prefix", 0), prefix_end, END>>]

\* a selected read whose path takes the self-loop of I1_0: the insert state
\* occurs twice in its first unit and emits A, then T
insert_loop_read ==
    [sequence |-> <<"G", "T", "A", "C", "A", "T", "A", "G", "T", "A", "C">>,
     logp |-> 0,
     vpath |-> <<START, suffix_start,
                 M(1, "suffix", 0), M(2, "suffix", 0), M(3, "suffix", 0), suffix_end,
                 start_repeats_matches,
                 unit_start(0), M(1, "copy", 0), I(1, "copy", 0), I(1, "copy", 0),
                 M(2, "copy", 0), M(3, "copy", 0), unit_end(0),
                 end_repeats_matches, prefix_start,
                 M(1, "prefix", 0), M(2, "prefix", 0), M(3, "prefix", 0), prefix_end, END>>]

\* the path reaches END: viterbi returns it and the caller analyses it
analyse(vpath, sequence) ==
    LET with_selected ==
          [other \in {other_selected_read, insert_loop_read} |->
             find_frameshift_from_selected_reads(
                <<[sequence |-> sequence, logp |-> 0, vpath |-> vpath], other>>)]
    IN
    [done |-> TRUE,
     repeats |-> get_number_of_repeats_in_vpath(vpath),
     repeat_bps |-> get_number_of_repeat_bp_matches_in_vpath(vpath),
     left_size |-> get_left_flanking_region_size_in_vpath(vpath),
     right_size |-> get_right_flanking_region_size_in_vpath(vpath),
     rate |-> get_flanking_regions_matching_rate(vpath, sequence,
                  walk_left_flank, walk_right_flank, FALSE),
     rate_filtered |-> get_flanking_regions_matching_rate(vpath, sequence,
                  walk_left_flank, walk_right_flank, TRUE),
     frameshift |-> with_selected[other_selected_read],
     frameshift_insert_loop |-> with_selected[insert_loop_read]]

Decoded ==
    /\ path_stage = "walk"
    /\ END \in Succ[path_last]
    /\ path_vpath' = Append(path_vpath, END)
    /\ path_stage' = "analysed"
    /\ path_result' = analyse(path_vpath', path_sequence)
    /\ UNCHANGED <<path_hmm, path_sequence, path_errors>>
    /\ UNCHANGED <<driver_vars, model_vars, calibration_vars>>

NextPath ==
    \/ WalkMatch
    \/ WalkInsert
    \/ WalkDelete
    \/ WalkGateway
    \/ Decoded


(***************************************************************************)
(* Spec: VNTRFinder.find_repeat_count_from_alignment_file.  The driver     *)
(* reads the unmapped-reads file and starts one process per candidate      *)
(* read, at most CORES of them at a time; it joins them, walks the mapped  *)
(* reads of the VNTR region and aggregates.  A worker process is           *)
(* process_unmapped_read; its steps are its accesses to the shared         *)
(* objects.                                                                *)
(***************************************************************************)
\* Semaphore(CORES)
CORES == 2

\* python's round() of the fraction num/den, den > 0, num >= 0
round(num, den) == (2 * num + den) \div (2 * den)

\* left_flanking_region[-flanking_region_size:]
slice_last(seq, n) ==
    IF n > 0 THEN SubSeq(seq, Max2(1, Len(seq) - n + 1), Len(seq))
    ELSE SubSeq(seq, Min2(Len(seq), 0 - n) + 1, Len(seq))
\* right_flanking_region[:flanking_region_size]
slice_first(seq, n) ==
    IF n >= 0 THEN SubSeq(seq, 1, Min2(n, Len(seq)))
    ELSE SubSeq(seq, 1, Max2(0, Len(seq) + n))

\* the model built (or loaded) for a read length: its copies and its flanks
get_vntr_matcher_hmm(len) ==
    LET copies == round(2 * len + Len(pattern), 2 * Len(pattern))
        flanking_region_size == len - 10
    IN [copies |-> copies,
        left_flanking_region |-> slice_last(left_flanking_region, flanking_region_size),
        right_flanking_region |-> slice_first(right_flanking_region, flanking_region_size)]

\* the transitions of the model the driver decodes with
hmm_transitions(h) ==
    edges_of(get_read_matcher_model(Len(h.left_flanking_region), Len(pattern), h.copies))

\* the strand kept out of the two decodings: sequence, logp, vpath
select_strand_or_equal(seq, fwd, rev) ==
    IF fwd.logp <= rev.logp
    THEN [sequence |-> reverse_complement(seq), logp |-> rev.logp, vpath |-> rev.vpath]
    ELSE [sequence |-> seq, logp |-> fwd.logp, vpath |-> fwd.vpath]

select_strand(seq, fwd, rev) ==
    IF fwd.logp < rev.logp
    THEN [sequence |-> reverse_complement(seq), logp |-> rev.logp, vpath |-> rev.vpath]
    ELSE [sequence |-> seq, logp |-> fwd.logp, vpath |-> fwd.vpath]

min_repeat_bp_to_add_read == 2
min_repeat_bp_to_count_repeats == 2

\* the hmm that is still None
NoModel == [copies |-> None]
NoRead == [seq |-> <<>>]
NoStrand == [sequence |-> <<>>, logp |-> 0, vpath |-> <<>>]

\* the state of the driver at line 370 and of the decoding before its first step
InitRun ==
    /\ InitPath
    /\ pc = "read_unmapped"
    /\ number_of_reads = 0
    /\ read_length = 150
    /\ hmm = NoModel
    /\ min_score_to_count_read = None
    /\ sema = CORES
    /\ process_list = <<>>
    /\ vntr_bp_in_unmapped_reads = 0
    /\ selected_reads = <<>>
    /\ best_seq = [logp |-> 0 - 1000000000, vpath |-> <<>>, seq |-> <<>>]
    /\ read_segment = NoRead
    /\ fetched = <<>>
    /\ read = NoRead
    /\ kept = NoStrand
    /\ vntr_bp_in_mapped_reads = 0
    /\ flanked_repeats = <<>>
    /\ observed_repeats = <<>>
    /\ result = [outcome |-> "running"]
    /\ viterbi_calls = {}

\* one pass of `for read_segment in unmapped_reads` up to sema.acquire()
ReadUnmapped ==
    /\ pc = "read_unmapped"
    /\ number_of_reads < MaxUnmapped
    /\ \E r \in unmapped_reads, in_filtered_read_ids \in BOOLEAN :
         LET len == IF number_of_reads = 0 THEN Len(r.seq) ELSE read_length IN
         /\ read_length' = len
         /\ number_of_reads' = number_of_reads + 1
         /\ hmm' = IF hmm = NoModel THEN get_vntr_matcher_hmm(len) ELSE hmm
         /\ min_score_to_count_read' =
              IF hmm = NoModel THEN get_min_score_to_select_a_read ELSE min_score_to_count_read
         /\ read_segment' = r
         /\ pc' = IF in_filtered_read_ids THEN "acquire" ELSE "read_unmapped"
    /\ UNCHANGED <<sema, process_list, vntr_bp_in_unmapped_reads, selected_reads, best_seq,
                   fetched, read, kept, vntr_bp_in_mapped_reads, flanked_repeats,
                   observed_repeats, result, viterbi_calls>>
    /\ UNCHANGED <<path_vars, model_vars, calibration_vars>>

\* sema.acquire(), Process(...), process_list.append(p), p.start()
StartProcess ==
    /\ pc = "acquire"
    /\ sema > 0
    /\ sema' = sema - 1
    /\ process_list' = Append(process_list,
                              [at |-> "started", read_segment |-> read_segment,
                               kept |-> NoStrand, repeat_bps |-> 0, value |-> 0])
    /\ pc' = "read_unmapped"
    /\ UNCHANGED <<number_of_reads, read_length, hmm, min_score_to_count_read,
                   vntr_bp_in_unmapped_reads, selected_reads, best_seq, read_segment,
                   fetched, read, kept, vntr_bp_in_mapped_reads, flanked_repeats,
                   observed_repeats, result, viterbi_calls>>
    /\ UNCHANGED <<path_vars, model_vars, calibration_vars>>

\* the unmapped-reads file is exhausted
EndOfUnmappedReads ==
    /\ pc = "read_unmapped"
    /\ pc' = "join"
    /\ UNCHANGED <<number_of_reads, read_length, hmm, min_score_to_count_read, sema,
                   process_list, vntr_bp_in_unmapped_reads, selected_reads, best_seq,
                   read_segment, fetched, read, kept, vntr_bp_in_mapped_reads,
                   flanked_repeats, observed_repeats, result, viterbi_calls>>
    /\ UNCHANGED <<path_vars, model_vars, calibration_vars>>

\* mutant: the driver goes on without joining
JoinWithoutWaiting ==
    /\ pc = "join"
    /\ pc' = "fetch"
    /\ vntr_bp_in_mapped_reads' = 0
    /\ UNCHANGED <<number_of_reads, read_length, hmm, min_score_to_count_read, sema,
                   process_list, vntr_bp_in_unmapped_reads, selected_reads, best_seq,
                   read_segment, fetched, read, kept, flanked_repeats, observed_repeats,
                   result, viterbi_calls>>
    /\ UNCHANGED <<path_vars, model_vars, calibration_vars>>

\* for p in process_list: p.join()
Join ==
    /\ pc = "join"
    /\ \A p \in DOMAIN process_list : process_list[p].at = "exited"
    /\ pc' = "fetch"
    /\ vntr_bp_in_mapped_reads' = 0
    /\ UNCHANGED <<number_of_reads, read_length, hmm, min_score_to_count_read, sema,
                   process_list, vntr_bp_in_unmapped_reads, selected_reads, best_seq,
                   read_segment, fetched, read, kept, flanked_repeats, observed_repeats,
                   result, viterbi_calls>>
    /\ UNCHANGED <<path_vars, model_vars, calibration_vars>>

(***************************************************************************)
(* process_unmapped_read, the process p of process_list.                   *)
(***************************************************************************)
WorkerVarsUnchanged ==
    /\ UNCHANGED <<pc, number_of_reads, read_length, hmm, min_score_to_count_read,
                   read_segment, fetched, read, kept, vntr_bp_in_mapped_reads,
                   flanked_repeats, observed_repeats, result>>
    /\ UNCHANGED <<path_vars, model_vars, calibration_vars>>

\* mutant: a logp that equals the threshold passes
after_best_seq_or_equal(k) ==
    LET repeat_bps == get_number_of_repeat_bp_matches_in_vpath(k.vpath) IN
    IF k.logp >= min_score_to_count_read
    THEN (IF repeat_bps > min_repeat_bp_to_count_repeats THEN "load"
          ELSE IF repeat_bps > min_repeat_bp_to_add_read THEN "append"
          ELSE "release")
    ELSE "release"

\* where the process goes behind the best_seq block: repeat_bps is computed
\* and the two thresholds are tested
after_best_seq(k) ==
    LET repeat_bps == get_number_of_repeat_bp_matches_in_vpath(k.vpath) IN
    IF k.logp > min_score_to_count_read
    THEN (IF repeat_bps > min_repeat_bp_to_count_repeats THEN "load"
          ELSE IF repeat_bps > min_repeat_bp_to_add_read THEN "append"
          ELSE "release")
    ELSE "release"

\* the N test, the two decodings, the strand, the test against best_seq
Score(p) ==
    /\ process_list[p].at = "started"
    /\ LET seq == process_list[p].read_segment.seq
           k == select_strand(seq, process_list[p].read_segment.forward,
                              process_list[p].read_segment.reverse)
       IN IF count_N(seq) <= 0
          THEN /\ viterbi_calls' = viterbi_calls \cup {seq, reverse_complement(seq)}
               /\ process_list' =
                    [process_list EXCEPT
                       ![p].kept = k,
                       ![p].repeat_bps = get_number_of_repeat_bp_matches_in_vpath(k.vpath),
                       ![p].at = IF k.logp > best_seq.logp THEN "best_logp"
                                 ELSE after_best_seq(k)]
          ELSE /\ process_list' = [process_list EXCEPT ![p].at = "release"]
               /\ UNCHANGED viterbi_calls
    /\ UNCHANGED <<sema, vntr_bp_in_unmapped_reads, selected_reads, best_seq>>
    /\ WorkerVarsUnchanged

\* best_seq['logp'] = logp
WriteBestLogp(p) ==
    /\ process_list[p].at = "best_logp"
    /\ best_seq' = [best_seq EXCEPT !.logp = process_list[p].kept.logp]
    /\ process_list' = [process_list EXCEPT ![p].at = "best_seq"]
    /\ UNCHANGED <<sema, vntr_bp_in_unmapped_reads, selected_reads, viterbi_calls>>
    /\ WorkerVarsUnchanged

\* best_seq['seq'] = sequence
WriteBestSeq(p) ==
    /\ process_list[p].at = "best_seq"
    /\ best_seq' = [best_seq EXCEPT !.seq = process_list[p].kept.sequence]
    /\ process_list' = [process_list EXCEPT ![p].at = "best_vpath"]
    /\ UNCHANGED <<sema, vntr_bp_in_unmapped_reads, selected_reads, viterbi_calls>>
    /\ WorkerVarsUnchanged

\* best_seq['vpath'] = vpath
WriteBestVpath(p) ==
    /\ process_list[p].at = "best_vpath"
    /\ best_seq' = [best_seq EXCEPT !.vpath = process_list[p].kept.vpath]
    /\ process_list' = [process_list EXCEPT ![p].at = after_best_seq(process_list[p].kept)]
    /\ UNCHANGED <<sema, vntr_bp_in_unmapped_reads, selected_reads, viterbi_calls>>
    /\ WorkerVarsUnchanged

\* vntr_bp_in_unmapped_reads.value += repeat_bps: the read of the value
LoadValue(p) ==
    /\ process_list[p].at = "load"
    /\ process_list' = [process_list EXCEPT ![p].value = vntr_bp_in_unmapped_reads,
                                            ![p].at = "store"]
    /\ UNCHANGED <<sema, vntr_bp_in_unmapped_reads, selected_reads, best_seq, viterbi_calls>>
    /\ WorkerVarsUnchanged

\* ... and the write of the sum
StoreValue(p) ==
    /\ process_list[p].at = "store"
    /\ vntr_bp_in_unmapped_reads' = process_list[p].value + process_list[p].repeat_bps
    /\ process_list' =
         [process_list EXCEPT
            ![p].at = IF process_list[p].repeat_bps > min_repeat_bp_to_add_read
                      THEN "append" ELSE "release"]
    /\ UNCHANGED <<sema, selected_reads, best_seq, viterbi_calls>>
    /\ WorkerVarsUnchanged

\* selected_reads.append((sequence, logp, vpath))
AppendSelected(p) ==
    /\ process_list[p].at = "append"
    /\ selected_reads' = Append(selected_reads, process_list[p].kept)
    /\ process_list' = [process_list EXCEPT ![p].at = "release"]
    /\ UNCHANGED <<sema, vntr_bp_in_unmapped_reads, best_seq, viterbi_calls>>
    /\ WorkerVarsUnchanged

\* mutant: the process ends without sema.release()
EndWithoutRelease(p) ==
    /\ process_list[p].at = "release"
    /\ process_list' = [process_list EXCEPT ![p].at = "exited"]
    /\ UNCHANGED <<sema, vntr_bp_in_unmapped_reads, selected_reads, best_seq, viterbi_calls>>
    /\ WorkerVarsUnchanged

\* sema.release(), and the process ends
Release(p) ==
    /\ process_list[p].at = "release"
    /\ sema' = sema + 1
    /\ process_list' = [process_list EXCEPT ![p].at = "exited"]
    /\ UNCHANGED <<vntr_bp_in_unmapped_reads, selected_reads, best_seq, viterbi_calls>>
    /\ WorkerVarsUnchanged

(***************************************************************************)
(* The mapped reads and the aggregation.                                   *)
(***************************************************************************)
vntr_start == reference_vntr.start_point
vntr_end == reference_vntr.start_point + reference_vntr.length

\* read.reference_end if read.reference_end else read.reference_start + len(read.seq)
read_end_of(r) ==
    IF r.reference_end # 0 THEN r.reference_end ELSE r.reference_start + Len(r.seq)

\* the test in front of the body of the mapped-read loop
overlaps_vntr(r) ==
    \/ (vntr_start <= r.reference_start /\ r.reference_start < vntr_end)
    \/ (vntr_start < read_end_of(r) /\ read_end_of(r) <= vntr_end)

\* one pass of `for read in samfile.fetch(chromosome, vntr_start, vntr_end)`
FetchMapped ==
    /\ pc = "fetch"
    /\ Len(fetched) < MaxMapped
    /\ \E r \in mapped_reads :
         LET body == ~r.is_unmapped /\ overlaps_vntr(r)
             decoded == body /\ count_N(r.seq) <= 0
             k == select_strand(r.seq, r.forward, r.reverse)
             rejected == decoded /\ hmm # NoModel /\ r.low_quality
                                 /\ k.logp < min_score_to_count_read
         IN
         /\ read' = r
         /\ fetched' = Append(fetched, r)
         /\ IF decoded /\ hmm = NoModel
            THEN \* hmm.viterbi of None
                 /\ pc' = "raised"
                 /\ result' = [outcome |-> "raised", error |-> "AttributeError"]
                 /\ UNCHANGED <<kept, selected_reads, vntr_bp_in_mapped_reads, viterbi_calls>>
            ELSE /\ UNCHANGED <<pc, result>>
                 /\ kept' = IF decoded THEN k ELSE kept
                 /\ viterbi_calls' = IF decoded
                                     THEN viterbi_calls \cup {r.seq, reverse_complement(r.seq)}
                                     ELSE viterbi_calls
                 /\ selected_reads' =
                      IF decoded /\ ~rejected
                      THEN Append(selected_reads,
                                  [sequence |-> k.sequence,
                                   logp |-> <<k.logp, r.mapq, r.reference_start>>,
                                   vpath |-> k.vpath])
                      ELSE selected_reads
                 /\ vntr_bp_in_mapped_reads' =
                      IF body /\ ~rejected
                      THEN vntr_bp_in_mapped_reads
                           + (Min2(read_end_of(r), vntr_end) - Max2(r.reference_start, vntr_start))
                      ELSE vntr_bp_in_mapped_reads
    /\ UNCHANGED <<number_of_reads, read_length, hmm, min_score_to_count_read, sema,
                   process_list, vntr_bp_in_unmapped_reads, best_seq, read_segment,
                   flanked_repeats, observed_repeats>>
    /\ UNCHANGED <<path_vars, model_vars, calibration_vars>>

\* mutant: a flank of 5 is taken for spanning
is_spanning_from_5(vpath) ==
    /\ get_left_flanking_region_size_in_vpath(vpath) >= 5
    /\ get_right_flanking_region_size_in_vpath(vpath) >= 5

\* the test of the aggregation loop
is_spanning(vpath) ==
    /\ get_left_flanking_region_size_in_vpath(vpath) > 5
    /\ get_right_flanking_region_size_in_vpath(vpath) > 5

RECURSIVE aggregate_loop(_, _, _)
\* `for sequence, logp, vpath in selected_reads`; a is [flanked_repeats, observed_repeats]
aggregate_loop(reads, j, a) ==
    IF j > Len(reads) THEN a
    ELSE LET repeats == get_number_of_repeats_in_vpath(reads[j].vpath) IN
         aggregate_loop(reads, j + 1,
            [flanked_repeats |-> IF is_spanning(reads[j].vpath)
                                 THEN Append(a.flanked_repeats, repeats)
                                 ELSE a.flanked_repeats,
             observed_repeats |-> Append(a.observed_repeats, repeats)])

RECURSIVE max(_)
max(seq) == IF Len(seq) = 1 THEN seq[1] ELSE Max2(seq[1], max(Tail(seq)))

\* the mapped reads are exhausted: everything behind the loop
Aggregate ==
    /\ pc = "fetch"
    /\ LET a == aggregate_loop(selected_reads, 1,
                               [flanked_repeats |-> <<>>, observed_repeats |-> <<>>])
           total_counted_vntr_bp == vntr_bp_in_unmapped_reads + vntr_bp_in_mapped_reads
       IN /\ flanked_repeats' = a.flanked_repeats
          /\ observed_repeats' = a.observed_repeats
          /\ IF a.observed_repeats = <<>>
             THEN \* max() of an empty list
                  /\ pc' = "raised"
                  /\ result' = [outcome |-> "raised", error |-> "ValueError"]
             ELSE IF total_counted_vntr_bp = 0
             THEN \* the unmapped reads influence divides by the counted base pairs
                  /\ pc' = "raised"
                  /\ result' = [outcome |-> "raised", error |-> "ZeroDivisionError"]
             ELSE /\ pc' = "returned"
                  /\ result' = [outcome |-> "returned",
                                maximum_of_observed_repeats |-> max(a.observed_repeats),
                                frameshift |-> find_frameshift_from_selected_reads(selected_reads),
                                pattern_occurrences |-> <<total_counted_vntr_bp, Len(pattern)>>]
    /\ UNCHANGED <<number_of_reads, read_length, hmm, min_score_to_count_read, sema,
                   process_list, vntr_bp_in_unmapped_reads, selected_reads, best_seq,
                   read_segment, fetched, read, kept, vntr_bp_in_mapped_reads, viterbi_calls>>
    /\ UNCHANGED <<path_vars, model_vars, calibration_vars>>

Next ==
    \/ ReadUnmapped
    \/ StartProcess
    \/ EndOfUnmappedReads
    \/ \E p \in DOMAIN process_list : Score(p)
    \/ \E p \in DOMAIN process_list : WriteBestLogp(p)
    \/ \E p \in DOMAIN process_list : WriteBestSeq(p)
    \/ \E p \in DOMAIN process_list : WriteBestVpath(p)
    \/ \E p \in DOMAIN process_list : LoadValue(p)
    \/ \E p \in DOMAIN process_list : StoreValue(p)
    \/ \E p \in DOMAIN process_list : AppendSelected(p)
    \/ \E p \in DOMAIN process_list : Release(p)
    \/ Join
    \/ FetchMapped
    \/ Aggregate

(***************************************************************************)
(* SpecFailure: the driver with workers that may raise.  An exception in   *)
(* process_unmapped_read ends the process where it stands; nothing behind  *)
(* the raising statement runs.                                             *)
(***************************************************************************)
\* a statement of process_unmapped_read raises and the process ends
Raise(p) ==
    /\ process_list[p].at \notin {"release", "exited"}
    /\ process_list' = [process_list EXCEPT ![p].at = "exited"]
    /\ UNCHANGED <<sema, vntr_bp_in_unmapped_reads, selected_reads, best_seq, viterbi_calls>>
    /\ WorkerVarsUnchanged

NextFailure ==
    \/ Next
    \/ \E p \in DOMAIN process_list : Raise(p)

(***************************************************************************)
(* SpecStore: the two files under TRAINED_HMMS_DIR, the stored model of    *)
(* get_vntr_matcher_hmm and the stored scores of                           *)
(* get_min_score_to_select_a_read, over a sequence of calls.               *)
(***************************************************************************)
\* calls of the getters in one run of the model
MaxCalls == 3

\* float(text) for the texts met in a score file; a float is a fraction
float_of ==
    ("0.1" :> <<1, 10>>) @@ ("0.10" :> <<1, 10>>) @@ ("0.5" :> <<1, 2>>) @@
    ("-60.0" :> <<0 - 60, 1>>) @@ ("-60" :> <<0 - 60, 1>>) @@ ("-55.0" :> <<0 - 55, 1>>)
is_float(text) == text \in DOMAIN float_of
\* '%s' % x
str_of(x) == CHOOSE text \in {"0.1", "0.5", "-60.0", "-55.0"} : float_of[text] = x

\* the values SCORE_FINDING_READS_FRACTION is set to, and the scores calculated
Fractions == {<<1, 10>>, <<1, 2>>}
Scores == {<<0 - 60, 1>>, <<0 - 55, 1>>}

\* a file: missing, a file, or a file that cannot be opened for reading;
\* writable when open(..., 'a') or open(..., 'w') succeeds; a line is
\* line.split()
File(status, writable, lines) == [status |-> status, writable |-> writable, lines |-> lines]

ScoreFiles ==
    { File("missing", TRUE, <<>>),
      File("missing", FALSE, <<>>),
      File("file", TRUE, << <<"0.10", "-60.0">> >>),
      File("file", TRUE, << <<"0.5", "-55.0">>, <<>>, <<"0.5", "-60">> >>),
      File("file", FALSE, << <<"0.5", "-55.0">> >>),
      File("file", TRUE, << <<"0.1">> >>),
      File("file", TRUE, << <<"0.1", "n/a">> >>),
      File("unreadable", TRUE, <<>>) }

\* vntr_matcher.to_json() and Model.from_json
to_json(model) == [json |-> model]
from_json(text) == text.json

HmmFiles ==
    { File("missing", TRUE, <<>>),
      File("missing", FALSE, <<>>),
      File("file", TRUE, to_json(get_vntr_matcher_hmm(150))),
      File("unreadable", TRUE, <<>>) }

\* [... for line in infile.readlines() if line.strip() != '']
nonblank(lines) == SelectSeq(lines, LAMBDA line : line # <<>>)

\* what reading the score file raises: open(), line.split()[1], float()
read_error(file) ==
    IF file.status = "unreadable" THEN "IOError"
    ELSE IF \E j \in DOMAIN file.lines : Len(file.lines[j]) = 1 THEN "IndexError"
    ELSE IF \E j \in DOMAIN nonblank(file.lines) :
              ~is_float(nonblank(file.lines)[j][1]) \/ ~is_float(nonblank(file.lines)[j][2])
         THEN "ValueError"
    ELSE "none"

\* {float(reads_fraction): float(score) for reads_fraction, score in frac_score}:
\* the last line of a fraction is the one kept
fraction_score_map(frac_score) ==
    [reads_fraction \in {float_of[frac_score[j][1]] : j \in DOMAIN frac_score} |->
       LET last == CHOOSE j \in DOMAIN frac_score :
                     /\ float_of[frac_score[j][1]] = reads_fraction
                     /\ \A k \in DOMAIN frac_score :
                          float_of[frac_score[k][1]] = reads_fraction => k <= j
       IN float_of[frac_score[last][2]]]

NoCall == [n |-> 0, of |-> "none", key |-> <<>>, computed |-> FALSE, value |-> <<>>,
           outcome |-> "none", raised_in |-> "none", error |-> "none"]

Returned(of, key, computed, value) ==
    [n |-> call.n + 1, of |-> of, key |-> key, computed |-> computed, value |-> value,
     outcome |-> "returned", raised_in |-> "none", error |-> "none"]

Raised(of, key, computed, value, raised_in, error) ==
    [n |-> call.n + 1, of |-> of, key |-> key, computed |-> computed, value |-> value,
     outcome |-> "raised", raised_in |-> raised_in, error |-> error]

InitStore ==
    /\ use_trained_hmms = TRUE
    /\ stored_scores_file = File("missing", TRUE, <<>>)
    /\ stored_hmm_file = File("missing", TRUE, <<>>)
    /\ call = NoCall
    /\ calculated = [fraction \in Fractions |-> 0]

StoreVarsUnchanged ==
    UNCHANGED <<path_vars, driver_vars, model_vars, chromosome_processes, false_scores,
                score, use_trained_hmms>>

\* mutant: the score is calculated whatever the file holds
get_min_score_recalculating(SCORE_FINDING_READS_FRACTION, calculation) ==
    LET file == stored_scores_file
        looked_up == use_trained_hmms /\ file.status # "missing"
        error == IF looked_up THEN read_error(file) ELSE "none"
    IN
    IF error # "none"
    THEN /\ call' = Raised("score", SCORE_FINDING_READS_FRACTION, FALSE, <<>>, "read", error)
         /\ UNCHANGED <<stored_scores_file, calculated>>
    ELSE IF calculation.outcome = "raised"
    THEN /\ call' = Raised("score", SCORE_FINDING_READS_FRACTION, FALSE, <<>>,
                           "calculate", calculation.error)
         /\ UNCHANGED <<stored_scores_file, calculated>>
    ELSE /\ calculated' = [calculated EXCEPT ![SCORE_FINDING_READS_FRACTION] = @ + 1]
         /\ IF ~file.writable
            THEN /\ call' = Raised("score", SCORE_FINDING_READS_FRACTION, TRUE,
                                   calculation.score, "write", "IOError")
                 /\ UNCHANGED stored_scores_file
            ELSE /\ stored_scores_file' =
                      File("file", TRUE,
                           Append(file.lines, <<str_of(SCORE_FINDING_READS_FRACTION),
                                                str_of(calculation.score)>>))
                 /\ call' = Returned("score", SCORE_FINDING_READS_FRACTION, TRUE,
                                     calculation.score)

\* get_min_score_to_select_a_read with the setting SCORE_FINDING_READS_FRACTION;
\* calculation is what calculate_min_score_to_select_a_read does when called
get_min_score(SCORE_FINDING_READS_FRACTION, calculation) ==
    LET file == stored_scores_file
        looked_up == use_trained_hmms /\ file.status # "missing"
        error == IF looked_up THEN read_error(file) ELSE "none"
        fraction_score == fraction_score_map(nonblank(file.lines))
    IN
    IF error # "none"
    THEN /\ call' = Raised("score", SCORE_FINDING_READS_FRACTION, FALSE, <<>>, "read", error)
         /\ UNCHANGED <<stored_scores_file, calculated>>
    ELSE IF looked_up /\ SCORE_FINDING_READS_FRACTION \in DOMAIN fraction_score
    THEN /\ call' = Returned("score", SCORE_FINDING_READS_FRACTION, FALSE,
                             fraction_score[SCORE_FINDING_READS_FRACTION])
         /\ UNCHANGED <<stored_scores_file, calculated>>
    ELSE IF calculation.outcome = "raised"
    THEN /\ call' = Raised("score", SCORE_FINDING_READS_FRACTION, FALSE, <<>>,
                           "calculate", calculation.error)
         /\ UNCHANGED <<stored_scores_file, calculated>>
    ELSE /\ calculated' = [calculated EXCEPT ![SCORE_FINDING_READS_FRACTION] = @ + 1]
         /\ IF ~file.writable
            THEN /\ call' = Raised("score", SCORE_FINDING_READS_FRACTION, TRUE,
                                   calculation.score, "write", "IOError")
                 /\ UNCHANGED stored_scores_file
            ELSE /\ stored_scores_file' =
                      File("file", TRUE,
                           Append(file.lines, <<str_of(SCORE_FINDING_READS_FRACTION),
                                                str_of(calculation.score)>>))
                 /\ call' = Returned("score", SCORE_FINDING_READS_FRACTION, TRUE,
                                     calculation.score)

\* a call of get_min_score_to_select_a_read
GetMinScoreToSelectARead ==
    /\ call.n < MaxCalls
    /\ \E SCORE_FINDING_READS_FRACTION \in Fractions,
          calculation \in {[outcome |-> "returned", score |-> x] : x \in Scores}
                            \cup {[outcome |-> "raised", error |-> "IndexError"]} :
         get_min_score(SCORE_FINDING_READS_FRACTION, calculation)
    /\ UNCHANGED stored_hmm_file
    /\ StoreVarsUnchanged

\* a call of get_vntr_matcher_hmm(read_length)
GetVntrMatcherHmm ==
    /\ call.n < MaxCalls
    /\ LET file == stored_hmm_file
           vntr_matcher == get_vntr_matcher_hmm(read_length)
       IN
       IF use_trained_hmms /\ file.status # "missing"
       THEN /\ call' = IF file.status = "unreadable"
                       THEN Raised("model", read_length, FALSE, <<>>, "read", "IOError")
                       ELSE Returned("model", read_length, FALSE, from_json(file.lines))
            /\ UNCHANGED stored_hmm_file
       ELSE IF ~file.writable
       THEN /\ call' = Raised("model", read_length, TRUE, vntr_matcher, "write", "IOError")
            /\ UNCHANGED stored_hmm_file
       ELSE /\ stored_hmm_file' = File("file", TRUE, to_json(vntr_matcher))
            /\ call' = Returned("model", read_length, TRUE, vntr_matcher)
    /\ UNCHANGED <<stored_scores_file, calculated>>
    /\ StoreVarsUnchanged

NextStore ==
    \/ GetMinScoreToSelectARead
    \/ GetVntrMatcherHmm

(***************************************************************************)
(* SpecCalibration: calculate_min_score_to_select_a_read.  One process per *)
(* contig runs add_false_read_scores_of_chromosome; it starts one process  *)
(* per sampled read, which runs add_hmm_score_to_list.                     *)
(***************************************************************************)
\* refs = [ref for ref in samfile.references
\*         if ref in CHROMOSOMES or 'chr' + ref in CHROMOSOMES]
refs == SelectSeq(references,
                  LAMBDA ref : ref \in CHROMOSOMES \/ chr_plus(ref) \in CHROMOSOMES)

\* the read lies on the contig of the VNTR and starts or ends in it
overlaps_reference_vntr(r) ==
    LET reference_name == IF ~startswith_chr(r.reference_name)
                          THEN chr_plus(r.reference_name) ELSE r.reference_name
    IN /\ reference_name = reference_vntr.chromosome
       /\ \/ (vntr_start <= r.reference_start /\ r.reference_start < vntr_end)
          \/ (vntr_start < read_end_of(r) /\ read_end_of(r) <= vntr_end)

\* a process of the outer process_list before p.start(); its Semaphore(5)
\* and its own process_list exist once it runs
NotStarted == [at |-> "not_started", i |-> 0, sema |-> 0, process_list |-> <<>>]

InitCalibration ==
    /\ chromosome_processes = [c \in DOMAIN refs |-> NotStarted]
    /\ false_scores = <<>>
    /\ score = [outcome |-> "running"]
    /\ InitStore

DriverVarsUnchanged == UNCHANGED <<path_vars, driver_vars, model_vars, store_vars>>

\* `for ref in refs`: Process(target=add_false_read_scores_of_chromosome), p.start()
StartChromosome ==
    /\ \E c \in DOMAIN refs :
         /\ chromosome_processes[c].at = "not_started"
         /\ \A b \in 1..(c - 1) : chromosome_processes[b].at # "not_started"
         /\ chromosome_processes' =
              [chromosome_processes EXCEPT ![c] = [at |-> "fetch", i |-> 0, sema |-> 5,
                                                   process_list |-> <<>>]]
    /\ UNCHANGED <<false_scores, score>>
    /\ DriverVarsUnchanged

\* one pass of `for read in samfile.fetch(reference)` up to sema.acquire();
\* sampled is random() <= SCORE_FINDING_READS_FRACTION
FetchRead(c) ==
    /\ chromosome_processes[c].at = "fetch"
    /\ chromosome_processes[c].i < Len(fetch(refs[c]))
    /\ \E sampled \in BOOLEAN :
         LET r == fetch(refs[c])[chromosome_processes[c].i + 1]
             skipped == \/ r.is_unmapped
                        \/ ~sampled
                        \/ overlaps_reference_vntr(r)
                        \/ count_N(r.seq) > 0
         IN chromosome_processes' =
              [chromosome_processes EXCEPT ![c].i = @ + 1,
                                           ![c].at = IF skipped THEN "fetch" ELSE "acquire"]
    /\ UNCHANGED <<false_scores, score>>
    /\ DriverVarsUnchanged

\* sema.acquire(), Process(target=add_hmm_score_to_list), append, p.start()
StartScoring(c) ==
    /\ chromosome_processes[c].at = "acquire"
    /\ chromosome_processes[c].sema > 0
    /\ chromosome_processes' =
         [chromosome_processes EXCEPT
            ![c].sema = @ - 1,
            ![c].process_list =
               Append(@, [at |-> "started",
                          read |-> fetch(refs[c])[chromosome_processes[c].i]]),
            ![c].at = "fetch"]
    /\ UNCHANGED <<false_scores, score>>
    /\ DriverVarsUnchanged

\* the reads of the contig are exhausted
EndOfChromosome(c) ==
    /\ chromosome_processes[c].at = "fetch"
    /\ chromosome_processes[c].i = Len(fetch(refs[c]))
    /\ chromosome_processes' = [chromosome_processes EXCEPT ![c].at = "join"]
    /\ UNCHANGED <<false_scores, score>>
    /\ DriverVarsUnchanged

\* add_hmm_score_to_list: hmm.viterbi and result_scores.append(logp)
AppendScore(c, p) ==
    /\ chromosome_processes[c].process_list[p].at = "started"
    /\ false_scores' = Append(false_scores, chromosome_processes[c].process_list[p].read.logp)
    /\ chromosome_processes' =
         [chromosome_processes EXCEPT ![c].process_list[p].at = "appended"]
    /\ UNCHANGED score
    /\ DriverVarsUnchanged

\* add_hmm_score_to_list: sema.release() and the end of the process
ReleaseScoring(c, p) ==
    /\ chromosome_processes[c].process_list[p].at = "appended"
    /\ chromosome_processes' =
         [chromosome_processes EXCEPT ![c].process_list[p].at = "exited",
                                      ![c].sema = @ + 1]
    /\ UNCHANGED <<false_scores, score>>
    /\ DriverVarsUnchanged

\* `for p in process_list: p.join()` of a contig, and the end of its process
JoinScoring(c) ==
    /\ chromosome_processes[c].at = "join"
    /\ \A p \in DOMAIN chromosome_processes[c].process_list :
         chromosome_processes[c].process_list[p].at = "exited"
    /\ chromosome_processes' = [chromosome_processes EXCEPT ![c].at = "exited"]
    /\ UNCHANGED <<false_scores, score>>
    /\ DriverVarsUnchanged

\* a non-empty sequence of scores without one occurrence of its largest
without_largest(scores) ==
    LET j == CHOOSE k \in DOMAIN scores : scores[k] = max(scores)
    IN SubSeq(scores, 1, j - 1) \o SubSeq(scores, j + 1, Len(scores))

\* numpy.percentile(false_scores, 100 - 0.0001): the point 0.999999 of the
\* way through the sorted scores, which lies between the two largest
percentile(scores) ==
    IF Len(scores) = 1 THEN [between |-> <<scores[1], scores[1]>>]
    ELSE [between |-> <<max(without_largest(scores)), max(scores)>>]

\* `for p in process_list: p.join()` and the percentile; numpy has nothing
\* to interpolate in an empty list: it raises or returns nan, by its version
JoinChromosomes ==
    /\ score.outcome = "running"
    /\ \A c \in DOMAIN refs : chromosome_processes[c].at \in {"exited", "failed"}
    /\ IF false_scores = <<>>
       THEN score' \in {[outcome |-> "raised", error |-> "IndexError"],
                        [outcome |-> "returned", nan |-> TRUE]}
       ELSE score' = [outcome |-> "returned", nan |-> FALSE,
                      score |-> percentile(false_scores)]
    /\ UNCHANGED <<chromosome_processes, false_scores>>
    /\ DriverVarsUnchanged

NextCalibration ==
    \/ StartChromosome
    \/ \E c \in DOMAIN refs : FetchRead(c)
    \/ \E c \in DOMAIN refs : StartScoring(c)
    \/ \E c \in DOMAIN refs : EndOfChromosome(c)
    \/ \E c \in DOMAIN refs : \E p \in DOMAIN chromosome_processes[c].process_list :
         AppendScore(c, p)
    \/ \E c \in DOMAIN refs : \E p \in DOMAIN chromosome_processes[c].process_list :
         ReleaseScoring(c, p)
    \/ \E c \in DOMAIN refs : JoinScoring(c)
    \/ JoinChromosomes

(***************************************************************************)
(* SpecAggregation: the driver with the calibration it calls.  The call of *)
(* get_min_score_to_select_a_read stands in the first pass of the loop     *)
(* over the unmapped reads, in front of the first worker; the driver goes  *)
(* on when calculate_min_score_to_select_a_read has returned.              *)
(***************************************************************************)
\* the driver stands in front of its first pass
InFrontOfFirstRead ==
    /\ pc = "read_unmapped"
    /\ number_of_reads = 0
    /\ score.outcome = "running"

\* calculate_min_score_to_select_a_read returns: its process_list and
\* false_scores go out of scope and the caller holds the score
ReturnScore ==
    /\ score.outcome = "returned"
    /\ score' = [outcome |-> "handed_over"]
    /\ chromosome_processes' = [c \in DOMAIN refs |-> NotStarted]
    /\ false_scores' = <<>>
    /\ DriverVarsUnchanged

NextAggregation ==
    \/ InFrontOfFirstRead /\ NextCalibration
    \/ ReturnScore
    \/ score.outcome = "handed_over" /\ Next

(***************************************************************************)
(* SpecSampling: calculate_min_score_to_select_a_read as                   *)
(* get_min_score_to_select_a_read calls it, on an alignment file whose     *)
(* reading may fail inside a per-chromosome process.  An exception ends    *)
(* the target of a Process; the process then joins the children it has     *)
(* started and ends with exit code 1, and join() in its parent returns.    *)
(***************************************************************************)
\* samfile.fetch raises in add_false_read_scores_of_chromosome
FetchRaises(c) ==
    /\ chromosome_processes[c].at = "fetch"
    /\ chromosome_processes' = [chromosome_processes EXCEPT ![c].at = "raised"]
    /\ UNCHANGED <<false_scores, score>>
    /\ DriverVarsUnchanged

\* the process of the contig ends on the exception
EndOnException(c) ==
    /\ chromosome_processes[c].at = "raised"
    /\ \A p \in DOMAIN chromosome_processes[c].process_list :
         chromosome_processes[c].process_list[p].at = "exited"
    /\ chromosome_processes' = [chromosome_processes EXCEPT ![c].at = "failed"]
    /\ UNCHANGED <<false_scores, score>>
    /\ DriverVarsUnchanged

\* '%s' % score of the percentile
str_of_percentile(x) == [percentile |-> x]

\* get_min_score_to_select_a_read behind its call of
\* calculate_min_score_to_select_a_read: the line written, the score returned
StoreScore ==
    /\ score.outcome = "returned"
    /\ call.n = 0
    /\ \E SCORE_FINDING_READS_FRACTION \in Fractions :
         IF ~stored_scores_file.writable
         THEN /\ call' = Raised("score", SCORE_FINDING_READS_FRACTION, TRUE, score,
                                "write", "IOError")
              /\ UNCHANGED stored_scores_file
         ELSE /\ stored_scores_file' =
                   File("file", TRUE,
                        Append(stored_scores_file.lines,
                               <<str_of(SCORE_FINDING_READS_FRACTION),
                                 str_of_percentile(score)>>))
              /\ call' = Returned("score", SCORE_FINDING_READS_FRACTION, TRUE, score)
    /\ UNCHANGED <<chromosome_processes, false_scores, score, use_trained_hmms,
                   stored_hmm_file, calculated>>
    /\ UNCHANGED <<path_vars, driver_vars, model_vars>>

NextSampling ==
    \/ NextCalibration
    \/ \E c \in DOMAIN refs : FetchRaises(c)
    \/ \E c \in DOMAIN refs : EndOnException(c)
    \/ StoreScore

(***************************************************************************)
(* SpecModel: the builders of hmm_utils.py, each called on a flank length, *)
(* a pattern length and a number of copies.                                *)
(***************************************************************************)
NotBuilt == [kind |-> "none", mat |-> {}]

Init ==
    /\ InitRun
    /\ InitCalibration
    /\ build_args = [F |-> FlankLen, L |-> Len(pattern), copies |-> Copies]
    /\ built = NotBuilt

InitStoreFiles ==
    /\ InitRun
    /\ chromosome_processes = [c \in DOMAIN refs |-> NotStarted]
    /\ false_scores = <<>>
    /\ score = [outcome |-> "running"]
    /\ use_trained_hmms \in BOOLEAN
    /\ stored_scores_file \in ScoreFiles
    /\ stored_hmm_file \in HmmFiles
    /\ call = NoCall
    /\ calculated = [fraction \in Fractions |-> 0]
    /\ build_args = [F |-> FlankLen, L |-> Len(pattern), copies |-> Copies]
    /\ built = NotBuilt

InitModel ==
    /\ InitRun
    /\ InitCalibration
    /\ build_args \in [F : 1..MaxFlank, L : 1..MaxPattern, copies : 1..MaxCopies]
    /\ built = NotBuilt

PrefixMatcher ==
    /\ built = NotBuilt
    /\ built' = [kind |-> "prefix", mat |-> get_prefix_matcher_hmm(build_args.F)]
    /\ UNCHANGED <<build_args, path_vars, driver_vars, calibration_vars>>

SuffixMatcher ==
    /\ built = NotBuilt
    /\ built' = [kind |-> "suffix", mat |-> get_suffix_matcher_hmm(build_args.F)]
    /\ UNCHANGED <<build_args, path_vars, driver_vars, calibration_vars>>

ConstantRepeatsMatcher ==
    /\ built = NotBuilt
    /\ built' = [kind |-> "constant",
                 mat |-> get_constant_number_of_repeats_matcher_hmm(build_args.L,
                                                                    build_args.copies)]
    /\ UNCHANGED <<build_args, path_vars, driver_vars, calibration_vars>>

VariableRepeatsMatcher ==
    /\ built = NotBuilt
    /\ built' = [kind |-> "variable",
                 mat |-> get_variable_number_of_repeats_matcher_hmm(build_args.L,
                                                                    build_args.copies)]
    /\ UNCHANGED <<build_args, path_vars, driver_vars, calibration_vars>>

ReadMatcher ==
    /\ built = NotBuilt
    /\ built' = [kind |-> "read_matcher",
                 mat |-> get_read_matcher_model(build_args.F, build_args.L,
                                                build_args.copies)]
    /\ UNCHANGED <<build_args, path_vars, driver_vars, calibration_vars>>

NextModel ==
    \/ PrefixMatcher
    \/ SuffixMatcher
    \/ ConstantRepeatsMatcher
    \/ VariableRepeatsMatcher
    \/ ReadMatcher

Spec == Init /\ [][Next]_vars

SpecPath == Init /\ [][NextPath]_vars

SpecModel == InitModel /\ [][NextModel]_vars

SpecCalibration == Init /\ [][NextCalibration]_vars

SpecFailure == Init /\ [][NextFailure]_vars

SpecStore == InitStoreFiles /\ [][NextStore]_vars

SpecSampling == Init /\ [][NextSampling]_vars

SpecAggregation == Init /\ [][NextAggregation]_vars

(***************************************************************************)
(* Properties of the path analysis, stated on the walked paths without     *)
(* the loops of the code: by sets of positions of the path.                *)
(***************************************************************************)
Analysed == path_stage = "analysed"

PositionsOf(vpath, P(_)) == {j \in 1..Len(vpath) : P(vpath[j])}

IsEmitting(s) == s.k \in {"M", "I"}
EmittedWithTag(vpath, tag) ==
    Cardinality({j \in 1..Len(vpath) : IsEmitting(vpath[j]) /\ vpath[j].t = tag})
\* the read base emitted at position j of the path
BaseAt(vpath, sequence, j) ==
    sequence[Cardinality({x \in 1..j : IsEmitting(vpath[x])})]
UnitStartsOf(vpath) == {j \in 1..Len(vpath) : vpath[j].k = "unit_start"}
UnitEndsOf(vpath) == {j \in 1..Len(vpath) : vpath[j].k = "unit_end"}
IsPathOf(vpath, mat) == \A j \in 1..(Len(vpath) - 1) : <<vpath[j], vpath[j + 1]>> \in mat

\* the path enters through the left flank and leaves through the right flank
FlankToFlank(vpath) ==
    /\ vpath[2] = suffix_start
    /\ vpath[Len(vpath) - 1] = prefix_end
\* the path enters at a repeat match state and ends at a repeat match state
InternalEntry(vpath) == vpath[2].k = "M" /\ vpath[2].t = "copy"
EarlyTermination(vpath) ==
    vpath[Len(vpath) - 1].k = "M" /\ vpath[Len(vpath) - 1].t = "copy"

\* C6: a path with at least 3 bp in the left flank, n >= 1 repeat copies each
\* from its unit_start to its unit_end, and at least 3 bp in the right flank
\* is counted as exactly n repeats.
C6_FlankedPathCountsItsCopies ==
    (/\ Analysed
     /\ FlankToFlank(path_vpath)
     /\ EmittedWithTag(path_vpath, "suffix") >= 3
     /\ EmittedWithTag(path_vpath, "prefix") >= 3)
    => /\ Cardinality(UnitStartsOf(path_vpath)) >= 1
       /\ Cardinality(UnitEndsOf(path_vpath)) = Cardinality(UnitStartsOf(path_vpath))
       /\ path_result.repeats = Cardinality(UnitStartsOf(path_vpath))

C6_Witness ==
    /\ Analysed
    /\ FlankToFlank(path_vpath)
    /\ EmittedWithTag(path_vpath, "suffix") >= 3
    /\ EmittedWithTag(path_vpath, "prefix") >= 3
    /\ Cardinality(UnitStartsOf(path_vpath)) = Copies
    /\ path_result.repeats = Copies

\* a pure-repeat read of whole units: entered at the first column of copy 0,
\* no insert or delete state, no mismatch, ended at the last column of a copy
WholeUnitsRead(vpath) ==
    /\ InternalEntry(vpath)
    /\ EarlyTermination(vpath)
    /\ vpath[2] = M(1, "copy", 0)
    /\ vpath[Len(vpath) - 1].c = Len(pattern)
    /\ path_errors = 0
WholeUnitsIn(vpath) == Cardinality(UnitStartsOf(vpath)) + 1

\* C7: on a path that starts inside the repeat run (internal entry at a match
\* state of a copy) and ends inside it (early termination from a match state
\* behind the last unit_start), delta is 1, and a pure-repeat read of n >= 2
\* whole units is counted as n or n + 1 repeats.
C7_InternalPathTakesDelta ==
    (/\ Analysed
     /\ InternalEntry(path_vpath)
     /\ EarlyTermination(path_vpath)
     /\ UnitStartsOf(path_vpath) # {})
    => /\ repeats_delta(repeats_locals(path_vpath)) = 1
       /\ WholeUnitsRead(path_vpath)
            => path_result.repeats \in {WholeUnitsIn(path_vpath), WholeUnitsIn(path_vpath) + 1}

\* the side rates of C9 as fractions; Counted says which emitting states of
\* the side count as matching
SideRate(vpath, sequence, tag, flank, accuracy_filter, Counted(_)) ==
    LET emitted == {j \in 1..Len(vpath) : IsEmitting(vpath[j]) /\ vpath[j].t = tag}
        matching == {j \in emitted : /\ Counted(vpath[j])
                                      /\ vpath[j].c >= 1
                                      /\ BaseAt(vpath, sequence, j) = flank[vpath[j].c]}
    IN IF emitted = {} THEN (IF accuracy_filter THEN <<1, 100000>> ELSE <<1, 1>>)
       ELSE <<Cardinality(matching), Cardinality(emitted)>>

RateIs(rate, right, left) ==
    /\ RatEq(rate, IF RatLess(left, right) THEN left ELSE right)
    /\ 0 <= rate[1] /\ rate[1] <= rate[2] /\ rate[2] > 0

AnyEmitting(s) == TRUE
OnlyMatch(s) == s.k = "M"

FrameshiftStates(vpath, k, c) ==
    {j \in 1..Len(vpath) :
        LET s == vpath[j] IN
        /\ s.k = k /\ s.c = c /\ s.t = "copy"
        /\ \E a \in 1..(j - 1) : vpath[a] = unit_start(s.i)
        /\ \E b \in (j + 1)..Len(vpath) : vpath[b] = unit_end(s.i)
        /\ Cardinality({x \in 1..Len(vpath) :
                          IsEmitting(vpath[x]) /\ vpath[x].t = "copy" /\ vpath[x].i = s.i})
           # Len(pattern)}

RECURSIVE DictSum(_, _)
DictSum(d, keys) ==
    IF keys = {} THEN 0
    ELSE LET x == CHOOSE x \in keys : TRUE IN d[x] + DictSum(d, keys \ {x})

CountedAs(mutations, k, c) ==
    DictSum(mutations, {l \in DOMAIN mutations : l.k = k /\ l.c = c})

\* C10: the histogram counts exactly the insert and delete states of repeat
\* units that are complete on the path and whose emitted length differs from
\* len(pattern): nothing of a unit of len(pattern) bases, of a partial unit or
\* of a flank.
C10_OnlyFrameshiftUnitsCounted ==
    Analysed =>
      /\ \A l \in DOMAIN path_result.frameshift.mutations : l.k \in {"I", "D"}
      /\ \A k \in {"I", "D"}, c \in 0..Len(pattern) :
           CountedAs(path_result.frameshift.mutations, k, c)
             = Cardinality(FrameshiftStates(path_vpath, k, c))
               + Cardinality(FrameshiftStates(other_selected_read.vpath, k, c))

\* scenario E4: one deleted base, a unit of length 2, its D state counted; the
\* same path has a partial unit or a flank with an insert or delete state
C10_Witness ==
    /\ Analysed
    /\ FlankToFlank(path_vpath)
    /\ \E c \in 1..Len(pattern) :
         /\ Cardinality(FrameshiftStates(path_vpath, "D", c)) = 1
         /\ CountedAs(path_result.frameshift.mutations, "D", c) >= 1
    /\ 2 \in {path_result.frameshift.repeats_lengths_distribution[x] :
                x \in DOMAIN path_result.frameshift.repeats_lengths_distribution}

\* the occurrences of the insert state of column c in frameshift units of the
\* read that emit the base b
InsertsEmitting(r, c, b) ==
    {j \in FrameshiftStates(r.vpath, "I", c) : BaseAt(r.vpath, r.sequence, j) = b}

CountOf(mutations, label) == IF label \in DOMAIN mutations THEN mutations[label] ELSE 0

\* C11: every counted insertion is labelled with the base that this very
\* occurrence of the insert state emitted: for every column c and base b the
\* count of the label 'I<c><b>' is the number of counted occurrences of the
\* insert state of column c that emitted b, also when the state occurs
\* several times on one path.
C11_InsertLabelledWithItsOwnBase ==
    Analysed =>
      \A c \in 0..Len(pattern), b \in Bases :
        CountOf(path_result.frameshift_insert_loop.mutations, [k |-> "I", c |-> c, b |-> b])
          = Cardinality(InsertsEmitting([vpath |-> path_vpath, sequence |-> path_sequence],
                                        c, b))
            + Cardinality(InsertsEmitting(insert_loop_read, c, b))

(***************************************************************************)
(* Properties of the models the builders return, stated on the graph of    *)
(* the transitions.                                                        *)
(***************************************************************************)
OutEdges(mat, s) == {e \in mat : e[1] = s}
InEdges(mat, s) == {e \in mat : e[2] = s}
Without(mat, S) == {e \in mat : e[1] \notin S /\ e[2] \notin S}
Within(mat, S) == {e \in mat : e[1] \in S /\ e[2] \in S}
SuccOf(mat, S) == {e[2] : e \in {e \in mat : e[1] \in S}}

\* the states on the paths of one or more transitions that leave S
RECURSIVE ReachableFrom(_, _)
ReachableFrom(mat, S) ==
    LET T1 == S \cup SuccOf(mat, S)
        T2 == T1 \cup SuccOf(mat, T1)
        T3 == T2 \cup SuccOf(mat, T2)
        T4 == T3 \cup SuccOf(mat, T3)
    IN IF T4 = S THEN S ELSE ReachableFrom(mat, T4)

Reaches(mat, a, b) == b \in ReachableFrom(mat, SuccOf(mat, {a}))

CopyStates(mat, i) == {s \in states_of(mat) : s.t = "copy" /\ s.i = i}
Gateways == {START, END, start_repeats_matches, end_repeats_matches}

\* a START-to-END path that visits unit_start and unit_end of the copies
\* 0..j-1 and no state of another copy
PathThroughCopies(mat, j) ==
    LET sub == Within(mat, Gateways \cup UNION {CopyStates(mat, i) : i \in 0..(j - 1)})
    IN /\ Reaches(sub, START, unit_start(0))
       /\ \A i \in 0..(j - 1) : Reaches(sub, unit_start(i), unit_end(i))
       /\ \A i \in 0..(j - 2) : Reaches(sub, unit_end(i), unit_start(i + 1))
       /\ Reaches(sub, unit_end(j - 1), END)

\* every START-to-END path visits unit_start and unit_end of copy 0, a state
\* of copy i is visited only after unit_end of copy i-1 and unit_start of
\* copy i, and only before unit_end of copy i
OnlyRunsOfCopies(mat, k) ==
    /\ ~Reaches(Without(mat, {unit_start(0)}), START, END)
    /\ \A i \in 0..(k - 1) :
         /\ ReachableFrom(Without(mat, {unit_start(i)}), {START}) \cap CopyStates(mat, i) = {}
         /\ \A s \in CopyStates(mat, i) \ {unit_end(i)} :
              ~Reaches(Without(mat, {unit_end(i)}), s, END)
         /\ i > 0 =>
              ReachableFrom(Without(mat, {unit_end(i - 1)}), {START}) \cap CopyStates(mat, i) = {}

\* C12: the variable-copy wrapper accepts exactly the runs of 1..k copies:
\* for every j in 1..k a START-to-END path visits exactly the copies 0..j-1,
\* every START-to-END path visits such a run, and every unit_end has exactly
\* two out-edges of weight 0.5, to its original successor and to
\* end_repeating_pattern_match.
C12_VariableCopiesAcceptsRuns ==
    built.kind = "variable" =>
      LET k == build_args.copies IN
      /\ \A j \in 1..k : PathThroughCopies(built.mat, j)
      /\ OnlyRunsOfCopies(built.mat, k)
      /\ CopyStates(built.mat, k) = {}
      /\ \A i \in 0..(k - 1) :
           OutEdges(built.mat, unit_end(i))
             = {<<unit_end(i), IF i < k - 1 THEN unit_start(i + 1) ELSE END, <<1, 2>> >>,
                <<unit_end(i), end_repeats_matches, <<1, 2>> >>}

C12_Witness ==
    /\ built.kind = "variable"
    /\ build_args.copies = 3
    /\ PathThroughCopies(built.mat, 2)
    /\ ~PathThroughCopies(Without(built.mat, {end_repeats_matches}), 2)
    /\ <<unit_end(1), end_repeats_matches, <<1, 2>> >> \in built.mat

\* C13 as claimed: START has an edge of weight 0.3 to suffix_start_suffix and
\* an edge of weight 0.7/copies to the first-column match state M1_k of every
\* repeat copy k, and no other out-edge.
C13_EntryAtFirstColumnOfEveryCopy ==
    built.kind = "read_matcher" =>
      OutEdges(built.mat, START)
        = {<<START, suffix_start, <<3, 10>> >>}
          \cup {<<START, M(1, "copy", k), Rat(7, 10 * build_args.copies)>> :
                  k \in 0..(build_args.copies - 1)}

\* C13 as amended: START has an edge of weight 0.3 to suffix_start_suffix and
\* an edge of weight 0.7/L to the match state of every column 1..L of copy 0,
\* and no other out-edge.
C13_EntryAtEveryColumnOfCopy0 ==
    built.kind = "read_matcher" =>
      OutEdges(built.mat, START)
        = {<<START, suffix_start, <<3, 10>> >>}
          \cup {<<START, M(c, "copy", 0), Rat(7, 10 * build_args.L)>> :
                  c \in 1..build_args.L}

C13_Witness ==
    /\ built.kind = "read_matcher"
    /\ build_args.L = 3 /\ build_args.copies = 2
    /\ <<START, M(3, "copy", 0), <<7, 30>> >> \in built.mat
    /\ M(1, "copy", 1) \notin SuccOf(built.mat, {START})

\* the composed model before the two edits of get_read_matcher_model
Concatenated(F, L, copies) ==
    concatenate(concatenate(get_suffix_matcher_hmm(F),
                            get_variable_number_of_repeats_matcher_hmm(L, copies)),
                get_prefix_matcher_hmm(F))

RepeatMatchStates(mat) == {s \in states_of(mat) : s.k = "M" /\ s.t = "copy"}

\* C14: with N repeat match states and t = 0.7/N, every repeat match state
\* has an edge to END of weight t/(1+t) = 7/(10N+7), each of its other
\* out-edges has its weight of before the edit divided by 1+t, and no insert
\* state, delete state or flank match state has an edge to END.
C14_EarlyTerminationFromRepeatMatches ==
    built.kind = "read_matcher" =>
      LET before == Concatenated(build_args.F, build_args.L, build_args.copies)
          N == Cardinality(RepeatMatchStates(built.mat))
      IN /\ N = build_args.L * build_args.copies
         /\ \A m \in RepeatMatchStates(built.mat) :
              OutEdges(built.mat, m)
                = {<<m, END, Rat(7, 10 * N + 7)>>}
                  \cup {<<m, e[2], Rat(e[3][1] * 10 * N, e[3][2] * (10 * N + 7))>> :
                          e \in OutEdges(before, m)}
         /\ \A e \in InEdges(built.mat, END) :
              /\ e[1].k \notin {"I", "D"}
              /\ ~(e[1].k = "M" /\ e[1].t \in {"prefix", "suffix"})

C14_Witness ==
    /\ built.kind = "read_matcher"
    /\ build_args.L = 2 /\ build_args.copies = 2
    /\ <<M(1, "copy", 0), END, <<7, 47>> >> \in built.mat
    /\ <<M(1, "copy", 0), M(2, "copy", 0), <<194, 235>> >> \in built.mat
    /\ <<M(2, "copy", 1), unit_end(1), <<196, 235>> >> \in built.mat

RECURSIVE SumOfWeights(_)
SumOfWeights(edges) ==
    IF edges = {} THEN <<0, 1>>
    ELSE LET e == CHOOSE e \in edges : TRUE
         IN RatAdd(e[3], SumOfWeights(edges \ {e}))

RowSum(mat, s) == SumOfWeights(OutEdges(mat, s))

\* C15: the weights a flank builder gives to the out-edges of each state other
\* than END sum to exactly 1, for every flank length; and the row of START
\* and the row of every repeat match state of the composed model sum to 1
\* after the two edits whenever they did before.
C15_RowsSumToOne ==
    /\ built.kind \in {"prefix", "suffix"} =>
         \A s \in states_of(built.mat) \ {END} : RowSum(built.mat, s) = <<1, 1>>
    /\ built.kind = "read_matcher" =>
         LET before == Concatenated(build_args.F, build_args.L, build_args.copies)
         IN \A s \in {START} \cup RepeatMatchStates(built.mat) :
              RowSum(before, s) = <<1, 1>> => RowSum(built.mat, s) = <<1, 1>>

C15_Witness ==
    /\ built.kind = "read_matcher"
    /\ build_args.L = 3 /\ build_args.copies = 2
    /\ RowSum(Concatenated(build_args.F, build_args.L, build_args.copies),
              M(2, "copy", 1)) = <<1, 1>>
    /\ Cardinality(OutEdges(built.mat, M(2, "copy", 1))) = 4
    /\ RowSum(built.mat, M(2, "copy", 1)) = <<1, 1>>
    /\ Cardinality(OutEdges(built.mat, START)) = 4

\* the states the builders add for flanks of length F and copies of length L
ProfileStates(L, t, i) ==
    {I(c, t, i) : c \in 0..L} \cup {M(c, t, i) : c \in 1..L} \cup {D(c, t, i) : c \in 1..L}

AddedStates(F, L, copies) ==
    {START, END, suffix_start, suffix_end, prefix_start, prefix_end,
     start_repeats_matches, end_repeats_matches}
    \cup ProfileStates(F, "suffix", 0) \cup ProfileStates(F, "prefix", 0)
    \cup UNION {ProfileStates(L, "copy", i) \cup {unit_start(i), unit_end(i)} :
                  i \in 0..(copies - 1)}

Reversed(mat) == {<<e[2], e[1], e[3]>> : e \in mat}

\* C16: the composed read-matcher has exactly one state without in-edge, its
\* start, and exactly one without out-edge, its end; the end is reachable
\* from the start; every state the builders added is reachable from the
\* start and reaches the end.
C16_EveryStateOnAStartToEndPath ==
    built.kind = "read_matcher" =>
      LET all == AddedStates(build_args.F, build_args.L, build_args.copies)
      IN /\ {s \in all : InEdges(built.mat, s) = {}} = {START}
         /\ {s \in all : OutEdges(built.mat, s) = {}} = {END}
         /\ states_of(built.mat) = all
         /\ END \in ReachableFrom(built.mat, {START})
         /\ all \subseteq ReachableFrom(built.mat, {START})
         /\ all \subseteq ReachableFrom(Reversed(built.mat), {END})

C16_Witness ==
    /\ built.kind = "read_matcher"
    /\ build_args.F = 2 /\ build_args.L = 3 /\ build_args.copies = 3
    /\ Cardinality(states_of(built.mat)) = 8 + 2 * 7 + 3 * 12
    /\ I(0, "copy", 2) \in ReachableFrom(built.mat, {START})
    /\ I(2, "suffix", 0) \in ReachableFrom(Reversed(built.mat), {END})

\* every path from START to a match, insert or delete state of copy k passes
\* through unit_start_k
UnitStartPrecedes(mat, L, k) ==
    ReachableFrom(Without(mat, {unit_start(k)}), {START}) \cap ProfileStates(L, "copy", k) = {}

\* C17 as claimed: in the composed read-matcher every path from START to a
\* match, insert or delete state of copy k passes through unit_start_k first,
\* for every copy k.
C17_UnitStartPrecedesItsCopy ==
    built.kind = "read_matcher" =>
      \A k \in 0..(build_args.copies - 1) : UnitStartPrecedes(built.mat, build_args.L, k)

\* C17 as amended: this holds for every copy k >= 1, and for copy 0 of every
\* path that does not begin with an internal-entry edge from START to a
\* match state of copy 0.
C17_UnitStartPrecedesButForInternalEntry ==
    built.kind = "read_matcher" =>
      /\ \A k \in 1..(build_args.copies - 1) :
           UnitStartPrecedes(built.mat, build_args.L, k)
      /\ UnitStartPrecedes({e \in built.mat : ~(e[1] = START /\ e[2].k = "M")},
                           build_args.L, 0)

C17_Witness ==
    /\ built.kind = "read_matcher"
    /\ build_args.copies = 2 /\ build_args.L = 2
    /\ D(2, "copy", 1) \in ReachableFrom(built.mat, {START})
    /\ UnitStartPrecedes(built.mat, build_args.L, 1)
    /\ I(2, "copy", 0) \in ReachableFrom(Without(built.mat, {unit_start(0)}), {START})

(***************************************************************************)
(* Properties of the driver.                                               *)
(***************************************************************************)
NoN(seq) == \A j \in 1..Len(seq) : seq[j] # "N"

IsReverseComplement(a, b) ==
    /\ Len(a) = Len(b)
    /\ \A j \in 1..Len(a) :
         <<a[j], b[Len(b) + 1 - j]>> \in {<<"A", "T">>, <<"T", "A">>, <<"C", "G">>, <<"G", "C">>}

\* k is the better-scoring strand of the read r, the forward one on a tie
IsBestStrand(k, r) ==
    /\ k.logp = Max2(r.forward.logp, r.reverse.logp)
    /\ IF r.forward.logp >= r.reverse.logp
       THEN k.sequence = r.seq /\ k.vpath = r.forward.vpath
       ELSE IsReverseComplement(k.sequence, r.seq) /\ k.vpath = r.reverse.vpath

BestVpath(r) == IF r.forward.logp >= r.reverse.logp THEN r.forward.vpath ELSE r.reverse.vpath
RepeatBpsOf(vpath) ==
    Cardinality({j \in 2..(Len(vpath) - 1) : IsEmitting(vpath[j]) /\ vpath[j].t = "copy"})

\* the unmapped read r may change the two shared objects
Accepted(r) ==
    /\ NoN(r.seq)
    /\ Max2(r.forward.logp, r.reverse.logp) > get_min_score_to_select_a_read
    /\ RepeatBpsOf(BestVpath(r)) > 2

Stepped(p) == p \in DOMAIN process_list' /\ process_list'[p] # process_list[p]
UnmappedPhase == pc \in {"read_unmapped", "acquire", "join"}

C1_FrameOfWorkerStep ==
    /\ \A p \in DOMAIN process_list :
         Stepped(p) =>
           LET r == process_list[p].read_segment IN
           /\ (vntr_bp_in_unmapped_reads' # vntr_bp_in_unmapped_reads
               \/ selected_reads' # selected_reads) => Accepted(r)
           /\ vntr_bp_in_unmapped_reads' # vntr_bp_in_unmapped_reads
                => /\ vntr_bp_in_unmapped_reads'
                        = process_list[p].value + RepeatBpsOf(BestVpath(r))
                   /\ process_list[p].value = vntr_bp_in_unmapped_reads
                        => vntr_bp_in_unmapped_reads'
                             = vntr_bp_in_unmapped_reads + RepeatBpsOf(BestVpath(r))
           /\ selected_reads' # selected_reads
                => /\ Len(selected_reads') = Len(selected_reads) + 1
                   /\ SubSeq(selected_reads', 1, Len(selected_reads)) = selected_reads
                   /\ IsBestStrand(selected_reads'[Len(selected_reads')], r)
    /\ (UnmappedPhase /\ \A p \in DOMAIN process_list : ~Stepped(p))
         => /\ vntr_bp_in_unmapped_reads' = vntr_bp_in_unmapped_reads
            /\ selected_reads' = selected_reads

C1_StateOfWorkers ==
    /\ \A seq \in viterbi_calls : NoN(seq)
    /\ UnmappedPhase =>
         /\ Len(selected_reads)
              = Cardinality({p \in DOMAIN process_list :
                               /\ Accepted(process_list[p].read_segment)
                               /\ process_list[p].at \in {"release", "exited"}})
         /\ \A p \in DOMAIN process_list :
              (process_list[p].at = "exited" /\ Accepted(process_list[p].read_segment))
                => \E j \in DOMAIN selected_reads :
                     IsBestStrand(selected_reads[j], process_list[p].read_segment)
         /\ (Len(process_list) = 1 /\ process_list[1].at = "exited")
              => vntr_bp_in_unmapped_reads
                   = IF Accepted(process_list[1].read_segment)
                     THEN RepeatBpsOf(BestVpath(process_list[1].read_segment)) ELSE 0

Intersects(r) ==
    /\ ~r.is_unmapped
    /\ r.reference_start < vntr_end
    /\ vntr_start < read_end_of(r)
OverlapOf(r) == Min2(read_end_of(r), vntr_end) - Max2(r.reference_start, vntr_start)

RECURSIVE SumOverlaps(_)
SumOverlaps(reads) ==
    IF reads = <<>> THEN 0
    ELSE (IF Intersects(Head(reads)) THEN OverlapOf(Head(reads)) ELSE 0)
         + SumOverlaps(Tail(reads))

\* C2: every mapped read fetched that intersects the VNTR interval adds
\* min(read_end, vntr_end) - max(reference_start, vntr_start) to
\* vntr_bp_in_mapped_reads, whatever its quality, its N content and its
\* position against the VNTR.
C2_MappedBpIsSumOfOverlaps ==
    (pc \in {"fetch", "returned"} \/ (pc = "raised" /\ result.error # "AttributeError"))
      => vntr_bp_in_mapped_reads = SumOverlaps(fetched)

RECURSIVE SumAccepted(_)
SumAccepted(processes) ==
    IF processes = <<>> THEN 0
    ELSE (IF Accepted(Head(processes).read_segment)
          THEN RepeatBpsOf(BestVpath(Head(processes).read_segment)) ELSE 0)
         + SumAccepted(Tail(processes))

\* C3: once all workers are joined, vntr_bp_in_unmapped_reads is the sum of
\* the repeat-bp counts of the accepted unmapped reads, in every interleaving.
C3_UnmappedBpIsSumOfAccepted ==
    ~UnmappedPhase => vntr_bp_in_unmapped_reads = SumAccepted(process_list)

\* C4: when no read is selected and no base pair counted, the driver returns
\* without raising, with pattern_occurrences 0.
C4_NoRecruitReturnsZero ==
    (/\ pc \in {"returned", "raised"}
     /\ selected_reads = <<>>
     /\ vntr_bp_in_unmapped_reads + vntr_bp_in_mapped_reads = 0)
    => /\ result.outcome = "returned"
       /\ result.pattern_occurrences[1] = 0

\* C5: the strand kept for a decoded read is the better-scoring one, the
\* forward strand on a tie, with the sequence and the vpath of that strand,
\* in the worker and in the mapped-read loop.
C5_BestStrandKept ==
    /\ \A p \in DOMAIN process_list :
         (process_list[p].at # "started" /\ NoN(process_list[p].read_segment.seq))
           => IsBestStrand(process_list[p].kept, process_list[p].read_segment)
    /\ (/\ fetched # <<>>
        /\ pc # "raised"
        /\ ~read.is_unmapped /\ overlaps_vntr(read) /\ NoN(read.seq))
         => /\ IsBestStrand(kept, read)
            /\ (selected_reads # <<>>
                /\ selected_reads[Len(selected_reads)].sequence = kept.sequence
                /\ selected_reads[Len(selected_reads)].vpath = kept.vpath
                /\ Len(selected_reads) > Cardinality({p \in DOMAIN process_list :
                                                       Accepted(process_list[p].read_segment)}))
               \/ (read.low_quality /\ kept.logp < min_score_to_count_read)

\* a worker kept the reverse strand, another the forward strand of a tie, and
\* the mapped-read loop kept the reverse strand of its read
C5_Witness ==
    /\ Len(process_list) = 2
    /\ process_list[1].at = "exited" /\ process_list[2].at = "exited"
    /\ process_list[1].read_segment.forward.logp < process_list[1].read_segment.reverse.logp
    /\ process_list[1].kept.vpath = process_list[1].read_segment.reverse.vpath
    /\ process_list[2].read_segment.forward.logp = process_list[2].read_segment.reverse.logp
    /\ process_list[2].kept.sequence = process_list[2].read_segment.seq
    /\ fetched # <<>>
    /\ read.forward.logp < read.reverse.logp
    /\ kept.vpath = read.reverse.vpath
    /\ selected_reads[Len(selected_reads)].vpath = read.reverse.vpath

AggregationRan ==
    \/ pc = "returned"
    \/ (pc = "raised" /\ result.error # "AttributeError")

IsSpanning(vpath) ==
    /\ EmittedWithTag(vpath, "suffix") > 5
    /\ EmittedWithTag(vpath, "prefix") > 5

RECURSIVE RepeatsOfReads(_, _)
\* the repeat counts of the reads at the indices in S, in the order of the reads
RepeatsOfReads(reads, S) ==
    IF reads = <<>> THEN <<>>
    ELSE RepeatsOfReads(SubSeq(reads, 1, Len(reads) - 1), S)
         \o (IF Len(reads) \in S
             THEN <<get_number_of_repeats_in_vpath(reads[Len(reads)].vpath)>>
             ELSE <<>>)

\* C8: observed_repeats holds the repeat count of every selected read and
\* flanked_repeats those of the reads with more than 5 emitting suffix states
\* and more than 5 emitting prefix states, so flanked_repeats is a
\* sub-multiset of observed_repeats.
C8_FlankedAreTheSpanningReads ==
    AggregationRan =>
      /\ observed_repeats = RepeatsOfReads(selected_reads, DOMAIN selected_reads)
      /\ flanked_repeats
           = RepeatsOfReads(selected_reads,
                            {j \in DOMAIN selected_reads : IsSpanning(selected_reads[j].vpath)})

\* a spanning read and a read with a right flank of 5 are both selected
C8_Witness ==
    /\ pc = "returned"
    /\ Len(observed_repeats) = 2
    /\ Len(flanked_repeats) = 1
    /\ \E j \in DOMAIN selected_reads :
         /\ EmittedWithTag(selected_reads[j].vpath, "suffix") > 5
         /\ EmittedWithTag(selected_reads[j].vpath, "prefix") = 5

\* the least integer not below num/den, den > 0
Ceiling(num, den) == (num + den - 1) \div den

\* C18: the read-matcher is built with
\* copies = ceil(read_length / len(pattern) + 0.5).
C18_CopiesIsCeiling ==
    hmm # NoModel =>
      hmm.copies = Ceiling(2 * read_length + Len(pattern), 2 * Len(pattern))

(***************************************************************************)
(* Properties of the calibration.                                          *)
(***************************************************************************)
\* the reads whose score a process has appended to false_scores
Contributed ==
    {chromosome_processes[c].process_list[p].read :
       <<c, p>> \in {cp \in (DOMAIN refs) \X (1..7) :
                       /\ cp[2] \in DOMAIN chromosome_processes[cp[1]].process_list
                       /\ chromosome_processes[cp[1]].process_list[cp[2]].at # "started"}}

\* the read lies on the contig of the VNTR, named with or without 'chr'
OnChromosomeOfVntr(r) ==
    reference_vntr.chromosome \in {r.reference_name, chr_plus(r.reference_name)}
\* the interval [reference_start, reference_end) of the read and
\* [vntr_start, vntr_end) have a position in common
IntersectsVntr(r) ==
    /\ OnChromosomeOfVntr(r)
    /\ r.reference_start < vntr_end
    /\ read_end_of(r) > vntr_start

\* C19: no read that is unmapped, that contains N, or whose reference
\* interval intersects [vntr_start, vntr_end) on the contig of the VNTR
\* contributes a score to false_scores.
C19_NullSampleAvoidsTheVntr ==
    \A r \in Contributed :
      /\ ~r.is_unmapped
      /\ count_N(r.seq) = 0
      /\ ~IntersectsVntr(r)

\* the processes of a process_list that were started and have not ended
LiveIn(processes) == {p \in DOMAIN processes : processes[p].at # "exited"}
\* the processes running add_hmm_score_to_list, over all contigs
RECURSIVE LiveScoring(_)
LiveScoring(c) ==
    IF c = 0 THEN 0
    ELSE Cardinality(LiveIn(chromosome_processes[c].process_list)) + LiveScoring(c - 1)

\* C20: at every moment at most CORES Viterbi worker processes are live, in
\* the null-score collection (the per-read workers of all per-chromosome
\* processes) and in the read scoring.
C20_AtMostCoresWorkersLive ==
    /\ LiveScoring(Len(refs)) <= CORES
    /\ Cardinality(LiveIn(process_list)) <= CORES

(***************************************************************************)
(* Further properties of the path analysis.                                *)
(***************************************************************************)
\* C26: on every state path of the composed read-matcher the emitting states
\* are partitioned by tag: left flank size + right flank size + repeat base
\* pairs is the number of emitting states of the path, the length of the read.
C26_EmittingStatesPartitionedByTag ==
    Analysed =>
      /\ path_result.left_size + path_result.right_size + path_result.repeat_bps
           = Cardinality({j \in 1..Len(path_vpath) : IsEmitting(path_vpath[j])})
      /\ path_result.left_size + path_result.right_size + path_result.repeat_bps
           = Len(path_sequence)

\* a path with bases of all three tags, one of them emitted by an insert state
C26_Witness ==
    /\ Analysed
    /\ path_result.left_size > 0
    /\ path_result.right_size > 0
    /\ path_result.repeat_bps > 0
    /\ \E j \in 1..Len(path_vpath) : startswith_I(path_vpath[j])

\* the suffix-tagged match, insert and delete states of a model
SuffixStates(mat) == {s \in states_of(mat) : ~contains_start_or_end(s) /\ endswith_suffix(s)}
\* the positions of the path at such states
SuffixPositions(vpath) ==
    {j \in 1..Len(vpath) : ~contains_start_or_end(vpath[j]) /\ endswith_suffix(vpath[j])}
\* max_hmm_index as the first loop of get_flanking_regions_matching_rate leaves it
MaxHmmIndexOf(vpath) ==
    max_hmm_index_loop(visited_states_of(vpath), 1, Len(visited_states_of(vpath)),
                       [broke |-> FALSE, max_hmm_index |-> 0 - 1,
                        prev_state |-> visited_states_of(vpath)[1]]).max_hmm_index

Joined == pc \in {"fetch", "returned", "raised"}

\* C27: in the read scoring the driver acquires the semaphore once for each
\* worker it starts and every worker releases it once, also for a read with
\* an N: the count stays within 0..CORES, CORES less the live workers, and is
\* back at CORES once all workers have been joined.
C27_SemaphoreCountsLiveWorkers ==
    /\ sema \in 0..CORES
    /\ sema = CORES - Cardinality(LiveIn(process_list))
    /\ Joined => sema = CORES

\* all workers joined, one of them for a read with an N, which is not decoded
C27_Witness ==
    /\ Joined
    /\ Len(process_list) = MaxUnmapped
    /\ \E p \in DOMAIN process_list :
         /\ count_N(process_list[p].read_segment.seq) > 0
         /\ process_list[p].kept = NoStrand
    /\ sema = CORES

\* C21: a worker that raises after the driver acquired the semaphore for it
\* still releases its token: every worker that has ended has given its token
\* back, so an acquire of the driver with no worker left running returns and
\* the driver is never blocked forever.
C21_TokenReleasedOnEveryExit ==
    /\ CORES - sema = Cardinality(LiveIn(process_list))
    /\ (pc = "acquire" /\ LiveIn(process_list) = {}) => sema > 0

\* the mapped read the driver holds is one whose body reaches hmm.viterbi
DecodesMapped ==
    /\ read # NoRead
    /\ ~read.is_unmapped
    /\ overlaps_vntr(read)
    /\ count_N(read.seq) <= 0

\* C29: whenever the driver decodes a mapped read, hmm and
\* min_score_to_count_read have been initialised, also when the
\* unmapped-reads file yields no record.
C29_ModelInitialisedBeforeMappedReads ==
    DecodesMapped => (hmm # NoModel /\ min_score_to_count_read # None)

\* the workers whose read has no N: the ones that decode and test best_seq
Candidates == {p \in DOMAIN process_list : count_N(process_list[p].read_segment.seq) <= 0}

\* C28: behind the join loop best_seq['logp'] is the largest strand-selected
\* logp of the reads without N (its initial value when there is none), and
\* best_seq['seq'] and best_seq['vpath'] are those of one read with that logp,
\* in every interleaving of the workers.
C28_BestSeqIsTheMaximum ==
    Joined =>
      IF Candidates = {}
      THEN best_seq = [logp |-> 0 - 1000000000, vpath |-> <<>>, seq |-> <<>>]
      ELSE /\ \A p \in Candidates : process_list[p].kept.logp <= best_seq.logp
           /\ \E p \in Candidates :
                /\ process_list[p].kept.logp = best_seq.logp
                /\ process_list[p].kept.sequence = best_seq.seq
                /\ process_list[p].kept.vpath = best_seq.vpath

\* C22: the percentile is computed only when every per-chromosome process
\* and every scoring worker it started has ended, and the driver reads
\* vntr_bp_in_unmapped_reads and selected_reads only behind the join of every
\* read-scoring worker.
C22_AggregationAfterAllTasksEnded ==
    /\ score.outcome \in {"returned", "raised"} =>
         \A c \in DOMAIN refs :
           /\ chromosome_processes[c].at = "exited"
           /\ \A p \in DOMAIN chromosome_processes[c].process_list :
                chromosome_processes[c].process_list[p].at = "exited"
    /\ Joined => \A p \in DOMAIN process_list : process_list[p].at = "exited"

C22_Witness ==
    /\ score.outcome = "handed_over"
    /\ Joined
    /\ Len(process_list) = MaxUnmapped
    /\ Len(selected_reads) > 0

(***************************************************************************)
(* Properties of the stores.                                               *)
(***************************************************************************)
\* the file holds a score for the fraction
Stored(file, fraction) ==
    /\ file.status = "file"
    /\ read_error(file) = "none"
    /\ fraction \in DOMAIN fraction_score_map(nonblank(file.lines))

\* a call of get_min_score_to_select_a_read has just returned
ScoreCallReturns ==
    /\ call'.n = call.n + 1
    /\ call'.of = "score"
    /\ call'.outcome = "returned"

C24_StoreFailuresAreMisses ==
    /\ call.outcome = "raised" => call.raised_in = "calculate"
    /\ call.computed => call.outcome = "returned"

\* a per-chromosome process has ended on an exception of samfile.fetch
ReadFailed == \E c \in DOMAIN refs : chromosome_processes[c].at \in {"raised", "failed"}

\* C25: when reading the alignment file fails inside a per-chromosome
\* process, the failure reaches the caller of
\* calculate_min_score_to_select_a_read: no threshold is returned from the
\* partial sample and no score line is written.
C25_ReadFailurePropagates ==
    ReadFailed =>
      /\ score.outcome # "returned"
      /\ stored_scores_file.lines = <<>>
      /\ call.outcome # "returned"

====
